---- MODULE Spec2Model ----
(***************************************************************************)
(* JobHunter: the job-fit scoring engine (src/src/scoring/engine.py) and   *)
(* its semantic provider (src/src/scoring/ai_scorer.py), the applicator's  *)
(* decision (src/src/applying/applicator.py) and the jobs table            *)
(* (src/src/database/models.py).                                           *)
(*                                                                         *)
(* Text.  A Python string is modelled as a sequence of atoms: a maximal    *)
(* run of word characters (\w+) is one atom, every other character (a      *)
(* space, a newline, '-', '+', ',', ...) is an atom of its own.  A regex   *)
(* word boundary \b lies exactly between a word atom and a neighbouring    *)
(* non-word atom or the end of the text, so re.search(r'\b'+kw+r'\b', t)   *)
(* is a contiguous match of kw's atoms in t with both boundaries checked.  *)
(*                                                                         *)
(* Numbers.  Sub-scores are kept in hundredths of a point, weights in per  *)
(* cent, the location and seniority multipliers in twentieths, so that the *)
(* weighted total is an exact integer (TotalUnit units per point).         *)
(***************************************************************************)
EXTENDS Integers, Sequences, FiniteSets, TLC

VARIABLES
  WEIGHTS,     \* JobScorer.WEIGHTS, the class-level weight table
  ai_scorer,   \* JobScorer.ai_scorer: "none", "unloaded" or "loaded"
  pc,          \* the scoring loop: "idle", "fetched" or "scored"
  job,         \* the posting (job_data) the loop is at
  result,      \* what score_job returned for job (score_result)
  calls,       \* the calls of score_job that threads have in flight
  applicator,  \* JobApplicator: min_fit_score and what should_apply returned
  db,          \* Database: the rows of the jobs table, in order of their ids
  outbox,      \* the alerts delivered: job and channel
  ai_scorer_instance  \* ai_scorer._ai_scorer_instance and the instances made

vars ==
  <<WEIGHTS, ai_scorer, pc, job, result, calls, applicator, db, outbox,
    ai_scorer_instance>>

\* What the scoring loop leaves alone.
other_objects == <<calls, applicator, db, outbox, ai_scorer_instance>>

(***************************************************************************)
(* Atoms and regular-expression matching                                   *)
(***************************************************************************)

\* The characters of the model's texts that are not word characters.
NonWordAtoms == {" ", "\n", "-", "+", "#", ".", "/", ",", ":", "'"}

\* Python's \s among them.
WhitespaceAtoms == {" ", "\n"}

IsWordAtom(a) == a \notin NonWordAtoms

\* str.lower(), atom by atom: the capitalised atoms of the model's texts.
LowerTable ==
  [a \in {"Staff", "Senior", "Machine", "Learning", "Engineer", "Leading",
          "Software", "New", "York", "NY", "Boston", "MA", "Austin", "TX",
          "Remote", "Requirements", "US", "E", "Python", "San", "Francisco",
          "CA", "Benefits"} |->
     CASE a = "Staff" -> "staff"
       [] a = "Benefits" -> "benefits"
       [] a = "Senior" -> "senior"
       [] a = "Machine" -> "machine"
       [] a = "Learning" -> "learning"
       [] a = "Engineer" -> "engineer"
       [] a = "Leading" -> "leading"
       [] a = "Software" -> "software"
       [] a = "New" -> "new"
       [] a = "York" -> "york"
       [] a = "NY" -> "ny"
       [] a = "Boston" -> "boston"
       [] a = "MA" -> "ma"
       [] a = "Austin" -> "austin"
       [] a = "TX" -> "tx"
       [] a = "Remote" -> "remote"
       [] a = "Requirements" -> "requirements"
       [] a = "US" -> "us"
       [] a = "E" -> "e"
       [] a = "Python" -> "python"
       [] a = "San" -> "san"
       [] a = "Francisco" -> "francisco"
       [] a = "CA" -> "ca"]

LowerAtom(a) == IF a \in DOMAIN LowerTable THEN LowerTable[a] ELSE a

\* str.lower()
RECURSIVE Lower(_)
Lower(text) ==
  IF text = <<>> THEN <<>>
  ELSE <<LowerAtom(Head(text))>> \o Lower(Tail(text))

\* len(text): the number of characters.
RECURSIVE CharLen(_)
CharLen(text) ==
  IF text = <<>> THEN 0 ELSE Len(Head(text)) + CharLen(Tail(text))

\* Pairs <<a, p>> of word atoms of the model's texts with p a proper prefix
\* (suffix, inner part) of a: what a substring test sees and \b does not.
PrefixPairs ==
  {<<"engineering", "engineer">>, <<"leading", "lead">>,
   <<"requirements", "requirement">>, <<"agent", "ag">>, <<"agentic", "ag">>,
   <<"agile", "ag">>, <<"agricultural", "ag">>, <<"agriculture", "ag">>,
   <<"agtech", "ag">>, <<"databases", "data">>, <<"databases", "database">>,
   <<"datasets", "data">>, <<"farming", "farm">>,
   <<"fashiontech", "fashion">>, <<"fullstack", "full">>, <<"mlops", "ml">>,
   <<"serverless", "server">>, <<"technology", "tech">>}

SuffixPairs ==
  {<<"nonremote", "remote">>, <<"agtech", "tech">>, <<"coreml", "ml">>,
   <<"fashiontech", "tech">>, <<"fullstack", "stack">>,
   <<"healthtech", "tech">>, <<"medtech", "tech">>, <<"rag", "ag">>}

InfixPairs ==
  {<<"html", "ml">>, <<"chain", "ai">>, <<"faiss", "ai">>, <<"retail", "ai">>,
   <<"sustainability", "ai">>, <<"sustainable", "ai">>,
   <<"diagnostics", "ag">>, <<"language", "ag">>, <<"stage", "ag">>}

HasPrefix(a, p) == a = p \/ <<a, p>> \in PrefixPairs

HasSuffix(a, p) == a = p \/ <<a, p>> \in SuffixPairs

HasInfix(a, p) ==
  a = p \/ <<a, p>> \in (PrefixPairs \cup SuffixPairs \cup InfixPairs)

\* kw's atoms occur in text from position i on.
OccursAt(kw, text, i) ==
  /\ i + Len(kw) - 1 <= Len(text)
  /\ \A k \in 1..Len(kw) : text[i + k - 1] = kw[k]

\* \b before position i, given that the pattern's first atom is first.
BoundaryBefore(first, text, i) ==
  IF IsWordAtom(first)
    THEN i = 1 \/ ~IsWordAtom(text[i - 1])
    ELSE i > 1 /\ IsWordAtom(text[i - 1])

\* \b after position j, given that the pattern's last atom is last.
BoundaryAfter(last, text, j) ==
  IF IsWordAtom(last)
    THEN j = Len(text) \/ ~IsWordAtom(text[j + 1])
    ELSE j < Len(text) /\ IsWordAtom(text[j + 1])

\* re.search(r'\b' + re.escape(kw) + r'\b', text)
WordSearch(kw, text) ==
  \E i \in 1..Len(text) :
    /\ text[i] = kw[1]
    /\ OccursAt(kw, text, i)
    /\ BoundaryBefore(kw[1], text, i)
    /\ BoundaryAfter(kw[Len(kw)], text, i + Len(kw) - 1)

\* kw in text (Python's substring test): as OccursAt, but kw may begin inside
\* the first atom it touches and end inside the last one.
SubstringAt(kw, text, i) ==
  /\ i + Len(kw) - 1 <= Len(text)
  /\ IF Len(kw) = 1
       THEN HasInfix(text[i], kw[1])
       ELSE /\ HasSuffix(text[i], kw[1])
            /\ HasPrefix(text[i + Len(kw) - 1], kw[Len(kw)])
            /\ \A k \in 2..(Len(kw) - 1) : text[i + k - 1] = kw[k]

Substring(kw, text) == \E i \in 1..Len(text) : SubstringAt(kw, text, i)

\* The atoms of a text and the listed parts of each: a keyword whose first
\* atom is none of them is no substring of the text.
PartsOf(text) ==
  LET atoms == {text[i] : i \in 1..Len(text)}
      pairs == PrefixPairs \cup SuffixPairs \cup InfixPairs
  IN  atoms \cup {pr[2] : pr \in {q \in pairs : q[1] \in atoms}}

\* any(kw in text for kw in kws)
AnySubstring(kws, text) ==
  LET parts == PartsOf(text)
  IN  \E n \in 1..Len(kws) : kws[n][1] \in parts /\ Substring(kws[n], text)

\* The atoms of a text.
AtomsOf(text) == {text[i] : i \in 1..Len(text)}

\* [kw for kw in kws if re.search(r'\b' + re.escape(kw) + r'\b', text)]:
\* the matching keywords in list order.  A keyword whose first atom is not
\* an atom of the text cannot match and is skipped without a search.
Matching(kws, text) ==
  LET atoms == AtomsOf(text)
  IN  SelectSeq(kws, LAMBDA kw : kw[1] \in atoms /\ WordSearch(kw, text))

\* len(Matching(kws, text)) > 0
AnyMatching(kws, text) ==
  LET atoms == AtomsOf(text)
  IN  \E n \in 1..Len(kws) : kws[n][1] \in atoms /\ WordSearch(kws[n], text)

\* The all-digit atoms of the model's texts and int() of each.
NumberTable ==
  [a \in {"2", "3", "5", "6", "8", "10"} |->
     CASE a = "2" -> 2 [] a = "3" -> 3 [] a = "5" -> 5
       [] a = "6" -> 6 [] a = "8" -> 8 [] a = "10" -> 10]

IsNumber(a) == a \in DOMAIN NumberTable

\* The position after an optional '+' at j.
SkipPlus(text, j) == IF j <= Len(text) /\ text[j] = "+" THEN j + 1 ELSE j

\* The position after \s* from j on.
RECURSIVE SkipSpace(_, _)
SkipSpace(text, j) ==
  IF j <= Len(text) /\ text[j] \in WhitespaceAtoms
    THEN SkipSpace(text, j + 1) ELSE j

\* The literal 'years' at position j: no \b follows it in the patterns, so
\* any atom that begins with it will do.
YearsAt(text, j) == j <= Len(text) /\ HasPrefix(text[j], "years")

\* re.findall(r'(\d+)\+?\s*years', text), as the list of int() values.
RECURSIVE YearMentionsFrom(_, _)
YearMentionsFrom(text, i) ==
  IF i > Len(text) THEN <<>>
  ELSE IF IsNumber(text[i]) /\ YearsAt(text, SkipSpace(text, SkipPlus(text, i + 1)))
    THEN <<NumberTable[text[i]]>> \o YearMentionsFrom(text, i + 1)
    ELSE YearMentionsFrom(text, i + 1)

YearMentions(text) == YearMentionsFrom(text, 1)

\* max(list, default=0)
RECURSIVE MaxOf(_)
MaxOf(s) ==
  IF s = <<>> THEN 0
  ELSE LET m == MaxOf(Tail(s)) IN IF Head(s) > m THEN Head(s) ELSE m

all_skills ==
  <<
    <<"rag">>, <<"retrieval", " ", "augmented", " ", "generation">>,
    <<"llm">>, <<"large", " ", "language", " ", "models">>, <<"gpt">>,
    <<"nlp">>, <<"natural", " ", "language", " ", "processing">>,
    <<"semantic", " ", "search">>, <<"coreml">>,
    <<"machine", " ", "learning">>, <<"ml">>,
    <<"on", "-", "device", " ", "ml">>, <<"predictive", " ", "analytics">>,
    <<"deep", " ", "learning">>, <<"neural", " ", "networks">>,
    <<"pytorch">>, <<"tensorflow">>, <<"transformers">>,
    <<"computer", " ", "vision">>, <<"ocr">>, <<"data", " ", "pipelines">>,
    <<"mlops">>, <<"model", " ", "evaluation">>,
    <<"agentic", " ", "systems">>,
    <<"agent", "-", "style", " ", "workflows">>,
    <<"embedding", " ", "search">>, <<"vector", " ", "databases">>,
    <<"faiss">>, <<"pinecone">>, <<"prompt", " ", "engineering">>,
    <<"anomaly", " ", "detection">>, <<"predictive", " ", "modeling">>,
    <<"inference", " ", "flows">>, <<"python">>, <<"c">>, <<"c", "+", "+">>,
    <<"c", "#">>, <<"java">>, <<"rust">>, <<"sql">>, <<"postgresql">>,
    <<"mysql">>, <<"dynamodb">>, <<"aws">>, <<"lambda">>, <<"s3">>,
    <<"ec2">>, <<"api", " ", "gateway">>, <<"serverless">>,
    <<"high", "-", "throughput", " ", "systems">>, <<"rest", " ", "api">>,
    <<"graphql">>, <<"api", " ", "design">>, <<"microservices">>,
    <<"etl", "/", "elt", " ", "pipelines">>,
    <<"real", "-", "time", " ", "data", " ", "processing">>,
    <<"distributed", " ", "systems">>, <<"data", " ", "modeling">>,
    <<"snowflake">>, <<"swift">>, <<"swiftui">>, <<"ios">>, <<"visionos">>,
    <<"macos">>, <<"react">>, <<"react", " ", "native">>, <<"typescript">>,
    <<"javascript">>, <<"next", ".", "js">>, <<"node", ".", "js">>,
    <<"shopify">>, <<"liquid">>, <<"html">>, <<"css">>, <<"frontend">>,
    <<"backend">>, <<"cloud", " ", "engineering">>,
    <<"cloud", "-", "native">>, <<"docker">>, <<"ci", "/", "cd">>,
    <<"agile">>, <<"git">>, <<"github">>, <<"etl", "/", "elt">>,
    <<"data", " ", "ingestion">>,
    <<"terabyte", "-", "scale", " ", "datasets">>, <<"streaming">>,
    <<"binary", " ", "ingest">>,
    <<"mmap", "-", "based", " ", "i", "/", "o">>,
    <<"real", "-", "time", " ", "analytics">>,
    <<"data", " ", "transformation">>, <<"jupyter">>, <<"vscode">>,
    <<"pycharm">>, <<"xcode">>, <<"qr", "/", "nfc">>,
    <<"deep", " ", "links">>, <<"app", " ", "clips">>, <<"haptics">>,
    <<"offline", "-", "first", " ", "caching">>, <<"devops">>
  >>

industries ==
  <<
    <<"medical", " ", "technology">>, <<"medtech">>, <<"healthcare">>,
    <<"healthtech">>, <<"health", " ", "tech">>,
    <<"digital", " ", "health">>, <<"clinical">>,
    <<"medical", " ", "device">>, <<"diagnostics">>,
    <<"agriculture", " ", "tech">>, <<"agtech">>, <<"ag", " ", "tech">>,
    <<"agricultural", " ", "technology">>,
    <<"precision", " ", "agriculture">>, <<"farm", " ", "tech">>,
    <<"livestock", " ", "tech">>, <<"smart", " ", "farming">>,
    <<"fashion", " ", "tech">>, <<"fashion", " ", "technology">>,
    <<"apparel", " ", "tech">>, <<"fashiontech">>,
    <<"textile", " ", "tech">>, <<"retail", " ", "tech">>,
    <<"e", "-", "commerce", " ", "fashion">>, <<"fashion", " ", "ai">>,
    <<"fashion", " ", "industry">>, <<"fashion">>, <<"apparel">>,
    <<"garment">>, <<"clothing">>, <<"fashion", " ", "design">>,
    <<"sustainable", " ", "fashion">>, <<"fashion", " ", "manufacturing">>,
    <<"fashion", " ", "brands">>, <<"fashion", " ", "marketplace">>,
    <<"wearables">>, <<"textile">>, <<"sustainability">>,
    <<"climate", " ", "tech">>, <<"esg">>, <<"carbon", " ", "tech">>,
    <<"supply", " ", "chain">>,
    <<"supply", " ", "chain", " ", "transparency">>,
    <<"ethical", " ", "sourcing">>, <<"circular", " ", "economy">>,
    <<"environmental", " ", "tech">>, <<"artificial", " ", "intelligence">>,
    <<"ai", "/", "ml">>, <<"machine", " ", "learning">>, <<"iot">>,
    <<"internet", " ", "of", " ", "things">>, <<"embedded", " ", "systems">>,
    <<"sensors">>, <<"consumer", " ", "apps">>, <<"marketplace">>,
    <<"platform">>, <<"saas">>, <<"ios", " ", "engineering">>,
    <<"mobile", " ", "first">>, <<"startups">>, <<"0", "-", "to", "-", "1">>,
    <<"early", " ", "stage">>, <<"seed", " ", "stage">>,
    <<"high", "-", "performance", " ", "systems">>,
    <<"real", "-", "time", " ", "systems">>, <<"data", " ", "pipelines">>
  >>

roles ==
  <<
    <<"machine", " ", "learning", " ", "engineer">>,
    <<"ml", " ", "engineer">>, <<"ai", " ", "engineer">>,
    <<"artificial", " ", "intelligence", " ", "engineer">>,
    <<"software", " ", "engineer">>,
    <<"full", " ", "stack", " ", "engineer">>,
    <<"full", "-", "stack", " ", "engineer">>,
    <<"fullstack", " ", "engineer">>, <<"ios", " ", "engineer">>,
    <<"mobile", " ", "engineer">>, <<"backend", " ", "engineer">>,
    <<"data", " ", "engineer">>, <<"analytics", " ", "engineer">>,
    <<"data", " ", "and", " ", "analytics", " ", "engineer">>,
    <<"ml", " ", "platform", " ", "engineer">>, <<"mlops", " ", "engineer">>,
    <<"product", " ", "engineer">>, <<"founding", " ", "engineer">>
  >>

visa_positive ==
  <<
    <<"e", "-", "3">>, <<"e3">>, <<"e", "-", "3", " ", "visa">>,
    <<"e3", " ", "visa">>, <<"visa", " ", "sponsorship">>,
    <<"sponsor", " ", "visa">>, <<"sponsorship", " ", "available">>,
    <<"will", " ", "sponsor">>, <<"can", " ", "sponsor">>, <<"h1b">>,
    <<"h", "-", "1b">>, <<"lca">>,
    <<"labor", " ", "condition", " ", "application">>,
    <<"work", " ", "authorization">>,
    <<"authorized", " ", "to", " ", "work">>,
    <<"open", " ", "to", " ", "sponsorship">>
  >>

visa_negative ==
  <<
    <<"no", " ", "sponsorship">>, <<"cannot", " ", "sponsor">>,
    <<"will", " ", "not", " ", "sponsor">>,
    <<"must", " ", "be", " ", "authorized">>,
    <<"us", " ", "citizen", " ", "only">>, <<"citizens", " ", "only">>,
    <<"no", " ", "visa", " ", "sponsorship", " ", "now", " ", "or", " ", "in", " ", "future">>,
    <<"require", " ", "current", " ", "work", " ", "authorization">>,
    <<"local", " ", "candidates", " ", "only">>,
    <<"only", " ", "local", " ", "candidates">>, <<"no", " ", "relocation">>,
    <<"no", " ", "relocation", " ", "assistance">>,
    <<"must", " ", "be", " ", "local">>, <<"local", " ", "only">>,
    <<"tri", "-", "state", " ", "only">>, <<"no", " ", "3rd", " ", "party">>,
    <<"no", " ", "third", " ", "party">>,
    <<"no", " ", "third", "-", "party">>,
    <<"direct", " ", "hire", " ", "only">>, <<"w2", " ", "only">>,
    <<"already", " ", "authorized", " ", "to", " ", "work">>,
    <<"currently", " ", "authorized">>,
    <<"authorized", " ", "to", " ", "work", " ", "in", " ", "the", " ", "us", " ", "without", " ", "sponsorship">>,
    <<"must", " ", "already", " ", "have", " ", "work", " ", "authorization">>
  >>

REQUIREMENT_HEADERS ==
  <<
    <<"requirements">>, <<"qualifications">>,
    <<"required", " ", "qualifications">>,
    <<"minimum", " ", "qualifications">>, <<"about", " ", "you">>,
    <<"you", " ", "have">>, <<"you", " ", "are">>,
    <<"what", " ", "we", "'", "re", " ", "looking", " ", "for">>,
    <<"what", " ", "you", "'", "ll", " ", "need">>, <<"must", " ", "have">>,
    <<"basic", " ", "qualifications">>, <<"experience", " ", "required">>,
    <<"skills", " ", "required">>
  >>

StopKeywords ==
  <<
    <<"responsibilities">>, <<"what", " ", "you", "'", "ll", " ", "do">>,
    <<"about", " ", "us">>, <<"benefits">>, <<"perks">>,
    <<"our", " ", "company">>, <<"the", " ", "role">>,
    <<"why", " ", "join">>, <<"what", " ", "we", " ", "offer">>
  >>

IndustryPriorityKeywords ==
  <<
    <<"medical">>, <<"medtech">>, <<"healthcare">>, <<"healthtech">>,
    <<"health", " ", "tech">>, <<"clinical">>, <<"medical", " ", "device">>,
    <<"diagnostics">>, <<"digital", " ", "health">>, <<"agriculture">>,
    <<"agtech">>, <<"ag", " ", "tech">>, <<"agricultural">>,
    <<"farm", " ", "tech">>, <<"livestock">>,
    <<"precision", " ", "agriculture">>, <<"smart", " ", "farming">>,
    <<"fashion", " ", "tech">>, <<"fashiontech">>,
    <<"apparel", " ", "tech">>, <<"textile", " ", "tech">>,
    <<"fashion", " ", "ai">>, <<"fashion", " ", "technology">>,
    <<"retail", " ", "tech">>
  >>

AmbiguousNegatives ==
  <<
    <<"must", " ", "be", " ", "authorized">>,
    <<"authorized", " ", "to", " ", "work">>,
    <<"already", " ", "authorized">>, <<"currently", " ", "authorized">>,
    <<"require", " ", "current", " ", "work", " ", "authorization">>,
    <<"must", " ", "already", " ", "have", " ", "work", " ", "authorization">>
  >>

E3Markers ==
  <<
    <<"e", "-", "3">>, <<"e3">>
  >>

NycKeywords ==
  <<
    <<"new", " ", "york">>, <<"nyc">>, <<"manhattan">>, <<"brooklyn">>,
    <<"queens">>
  >>

RemoteKeywords ==
  <<
    <<"remote">>, <<"work", " ", "from", " ", "home">>, <<"wfh">>,
    <<"anywhere">>
  >>

NearbyKeywords ==
  <<
    <<"jersey", " ", "city">>, <<"hoboken">>, <<"newark">>, <<"stamford">>,
    <<"philadelphia">>, <<"philly">>, <<"boston">>
  >>

LeadershipKeywords ==
  <<
    <<"staff">>, <<"principal">>, <<"lead">>, <<"director">>, <<"head">>,
    <<"chief">>, <<"cto">>, <<"vp">>, <<"manager">>,
    <<"engineering", " ", "manager">>
  >>

ml_keywords ==
  <<
    <<"machine", " ", "learning">>, <<"ml">>, <<"ai">>,
    <<"data", " ", "science">>, <<"nlp">>, <<"deep", " ", "learning">>,
    <<"pytorch">>, <<"tensorflow">>
  >>

backend_keywords ==
  <<
    <<"backend">>, <<"api">>, <<"server">>, <<"database">>,
    <<"microservices">>, <<"rest">>, <<"graphql">>
  >>

fullstack_keywords ==
  <<
    <<"fullstack">>, <<"full", " ", "stack">>, <<"full", "-", "stack">>,
    <<"frontend">>, <<"react">>, <<"vue">>, <<"angular">>
  >>

priority_keywords ==
  <<
    <<"medical">>, <<"medtech">>, <<"healthcare">>, <<"healthtech">>,
    <<"agriculture">>, <<"agtech">>, <<"ag", " ", "tech">>, <<"farm">>,
    <<"fashion", " ", "tech">>, <<"fashiontech">>, <<"apparel">>
  >>
(***************************************************************************)
(* Units                                                                   *)
(***************************************************************************)

\* n points as a sub-score (hundredths of a point).
Points(n) == 100 * n

\* The weighted total counts TotalUnit units per point: hundredths of a
\* point, times a weight in per cent, times two multipliers in twentieths.
TotalUnit == 100 * 100 * 20 * 20

\* A multiplier given in per cent (100 for 1.0, 85 for 0.85), in twentieths.
Mult(percent) == percent \div 5

\* x / unit rounded to the nearest integer, a tie going up or down as tie_up
\* says.
RoundTo(x, unit, tie_up) ==
  LET q == x \div unit
      r == x % unit
  IN  IF 2 * r > unit THEN q + 1
      ELSE IF 2 * r < unit THEN q
      ELSE IF tie_up THEN q + 1 ELSE q

\* round(score, 1) of a sub-score, in tenths of a point.  A sub-score is a
\* whole number of points or, for the semantic score, an even number of
\* hundredths, so no tie occurs.
Round1(score) == RoundTo(score, 10, FALSE)

\* round(total_score, 1), in tenths of a point.  total_score is a binary
\* float: where the exact total lies half-way between two tenths, the
\* float lies just above or just below it and round() follows the float,
\* so a tie may go either way (tie_up).
RoundTotal(total_score, tie_up) == RoundTo(total_score, TotalUnit \div 10, tie_up)

Min(a, b) == IF a < b THEN a ELSE b

Max(a, b) == IF a > b THEN a ELSE b

(***************************************************************************)
(* JobScorer._extract_eligibility_sections                                 *)
(***************************************************************************)

\* str.split('\n'): the lines of text from position i on, line being the
\* part of the current line already read.
RECURSIVE SplitLinesFrom(_, _, _)
SplitLinesFrom(text, i, line) ==
  IF i > Len(text) THEN <<line>>
  ELSE IF text[i] = "\n" THEN <<line>> \o SplitLinesFrom(text, i + 1, <<>>)
  ELSE SplitLinesFrom(text, i + 1, Append(line, text[i]))

SplitLines(text) == SplitLinesFrom(text, 1, <<>>)

\* sep.join(lines)
RECURSIVE Join(_, _)
Join(sep, lines) ==
  IF lines = <<>> THEN <<>>
  ELSE IF Len(lines) = 1 THEN lines[1]
  ELSE lines[1] \o <<sep>> \o Join(sep, Tail(lines))

\* The words, one space between each two.
Words(ws) == Join(" ", [n \in 1..Len(ws) |-> <<ws[n]>>])

\* str.strip()
RECURSIVE Strip(_)
Strip(line) ==
  IF line = <<>> THEN <<>>
  ELSE IF Head(line) \in WhitespaceAtoms THEN Strip(Tail(line))
  ELSE IF line[Len(line)] \in WhitespaceAtoms
    THEN Strip(SubSeq(line, 1, Len(line) - 1))
  ELSE line

IsHeaderLine(line) == AnySubstring(REQUIREMENT_HEADERS, Strip(Lower(line)))

IsStopLine(line) == AnySubstring(StopKeywords, Strip(Lower(line)))

IsBlankLine(line) == Strip(line) = <<>>

\* The loop with a header line switching capture on without being appended.
RECURSIVE CaptureFromWithoutHeaders(_, _, _)
CaptureFromWithoutHeaders(lines, i, capture_mode) ==
  IF i > Len(lines) THEN <<>>
  ELSE IF IsHeaderLine(lines[i])
    THEN CaptureFromWithoutHeaders(lines, i + 1, TRUE)
  ELSE IF ~capture_mode THEN CaptureFromWithoutHeaders(lines, i + 1, FALSE)
  ELSE IF IsStopLine(lines[i])
    THEN CaptureFromWithoutHeaders(lines, i + 1, FALSE)
  ELSE IF IsBlankLine(lines[i])
    THEN CaptureFromWithoutHeaders(lines, i + 1,
                     ~(i + 1 <= Len(lines) /\ IsBlankLine(lines[i + 1])))
  ELSE <<lines[i]>> \o CaptureFromWithoutHeaders(lines, i + 1, TRUE)

\* The loop with capture ending at the first blank line.
RECURSIVE CaptureFromOneBlankStops(_, _, _)
CaptureFromOneBlankStops(lines, i, capture_mode) ==
  IF i > Len(lines) THEN <<>>
  ELSE IF IsHeaderLine(lines[i])
    THEN <<lines[i]>> \o CaptureFromOneBlankStops(lines, i + 1, TRUE)
  ELSE IF ~capture_mode THEN CaptureFromOneBlankStops(lines, i + 1, FALSE)
  ELSE IF IsStopLine(lines[i])
    THEN CaptureFromOneBlankStops(lines, i + 1, FALSE)
  ELSE IF IsBlankLine(lines[i])
    THEN CaptureFromOneBlankStops(lines, i + 1, FALSE)
  ELSE <<lines[i]>> \o CaptureFromOneBlankStops(lines, i + 1, TRUE)

\* The loop with the stop phrases looked for before the headers while
\* capturing.
RECURSIVE CaptureFromStopFirst(_, _, _)
CaptureFromStopFirst(lines, i, capture_mode) ==
  IF i > Len(lines) THEN <<>>
  ELSE IF capture_mode /\ IsStopLine(lines[i])
    THEN CaptureFromStopFirst(lines, i + 1, FALSE)
  ELSE IF IsHeaderLine(lines[i])
    THEN <<lines[i]>> \o CaptureFromStopFirst(lines, i + 1, TRUE)
  ELSE IF ~capture_mode THEN CaptureFromStopFirst(lines, i + 1, FALSE)
  ELSE IF IsBlankLine(lines[i])
    THEN CaptureFromStopFirst(lines, i + 1,
                     ~(i + 1 <= Len(lines) /\ IsBlankLine(lines[i + 1])))
  ELSE <<lines[i]>> \o CaptureFromStopFirst(lines, i + 1, TRUE)

\* The loop over the lines from line i on: the lines appended from there,
\* given the capture mode on entry.
RECURSIVE CaptureFrom(_, _, _)
CaptureFrom(lines, i, capture_mode) ==
  IF i > Len(lines) THEN <<>>
  ELSE IF IsHeaderLine(lines[i])
    THEN <<lines[i]>> \o CaptureFrom(lines, i + 1, TRUE)
  ELSE IF ~capture_mode THEN CaptureFrom(lines, i + 1, FALSE)
  ELSE IF IsStopLine(lines[i]) THEN CaptureFrom(lines, i + 1, FALSE)
  ELSE IF IsBlankLine(lines[i])
    THEN CaptureFrom(lines, i + 1,
                     ~(i + 1 <= Len(lines) /\ IsBlankLine(lines[i + 1])))
  ELSE <<lines[i]>> \o CaptureFrom(lines, i + 1, TRUE)

extract_eligibility_sections(description) ==
  IF description = <<>> THEN <<>>
  ELSE Join(" ", CaptureFrom(SplitLines(description), 1, FALSE))

\* list(set(xs)): the elements without duplicates; the order Python gives
\* them is not specified, so the result is kept as a set.
ListSet(xs) == {xs[n] : n \in 1..Len(xs)}

(***************************************************************************)
(* JobScorer._score_technical                                              *)
(***************************************************************************)

\* The base score with each band starting from 40.
TechnicalBaseRestartingBands(num_matches) ==
  IF num_matches >= 10 THEN Points(100)
  ELSE IF num_matches >= 6 THEN Points(40 + (num_matches - 6) * 5)
  ELSE IF num_matches >= 3 THEN Points(40 + (num_matches - 3) * 10)
  ELSE Points(30 + num_matches * 10)

\* The base score for num_matches >= 1 matches.
TechnicalBase(num_matches) ==
  IF num_matches >= 10 THEN Points(100)
  ELSE IF num_matches >= 6 THEN Points(80 + (num_matches - 6) * 5)
  ELSE IF num_matches >= 3 THEN Points(50 + (num_matches - 3) * 10)
  ELSE Points(30 + num_matches * 10)

\* The matcher with a skill of the requirements counted again when the
\* general text has it.
score_technical_counting_twice(text, eligibility_text) ==
  LET eligibility_matches ==
        IF eligibility_text = <<>> THEN <<>>
        ELSE Matching(all_skills, eligibility_text)
      matches == eligibility_matches \o Matching(all_skills, text)
      base == TechnicalBase(Len(matches))
      score == IF Len(eligibility_matches) >= 3
                 THEN Min(Points(100), base + Points(10)) ELSE base
  IN  IF matches = <<>> THEN [score |-> 0, matches |-> <<>>]
      ELSE [score |-> Min(score, Points(100)), matches |-> matches]

score_technical(text, eligibility_text) ==
  LET eligibility_matches ==
        IF eligibility_text = <<>> THEN <<>>
        ELSE Matching(all_skills, eligibility_text)
      in_eligibility == ListSet(eligibility_matches)
      text_atoms == AtomsOf(text)
      matches ==
        SelectSeq(all_skills,
                  LAMBDA skill :
                    \/ skill \in in_eligibility
                    \/ skill[1] \in text_atoms /\ WordSearch(skill, text))
      base == TechnicalBase(Len(matches))
      score == IF Len(eligibility_matches) >= 3
                 THEN Min(Points(100), base + Points(10)) ELSE base
  IN  IF matches = <<>> THEN [score |-> 0, matches |-> <<>>]
      ELSE [score |-> Min(score, Points(100)), matches |-> matches]

(***************************************************************************)
(* JobScorer._score_industry                                               *)
(***************************************************************************)

score_industry(text) ==
  LET matches == Matching(industries, text)
      text_lower == Lower(text)
      in_text == AnySubstring(IndustryPriorityKeywords, text_lower)
      has_priority_industry ==
        \E n \in 1..Len(matches) :
          \/ AnySubstring(IndustryPriorityKeywords, Lower(matches[n]))
          \/ in_text
      base == IF Len(matches) >= 3 THEN Points(95)
              ELSE IF Len(matches) = 2 THEN Points(75)
              ELSE Points(55)
      score == IF has_priority_industry
                 THEN Min(Points(100), base + Points(15)) ELSE base
  IN  IF matches = <<>> THEN [score |-> 0, matches |-> <<>>]
      ELSE [score |-> score, matches |-> matches]

(***************************************************************************)
(* JobScorer._score_role                                                   *)
(***************************************************************************)

\* A role found in the title only scored as if the description had it.
score_role_title_as_description(title, description) ==
  LET title_lower == Lower(title)
      title_matches ==
        SelectSeq(roles, LAMBDA role : Substring(Lower(role), title_lower))
      description_matches == Matching(roles, description)
      found == ListSet(title_matches \o description_matches)
  IN  IF found = {} THEN [score |-> 0, matches |-> {}]
      ELSE [score |-> IF Cardinality(found) >= 2 THEN Points(90)
                      ELSE Points(80),
            matches |-> found]

score_role(title, description) ==
  LET title_lower == Lower(title)
      title_parts == PartsOf(title_lower)
      title_matches ==
        SelectSeq(roles,
                  LAMBDA role : /\ Lower(role)[1] \in title_parts
                                /\ Substring(Lower(role), title_lower))
      description_matches == Matching(roles, description)
      all_matches == ListSet(title_matches \o description_matches)
      base_score ==
        IF description_matches # <<>>
          THEN (IF Len(description_matches) >= 2 THEN Points(90) ELSE Points(80))
        ELSE IF title_matches # <<>> THEN Points(60)
        ELSE 0
  IN  IF all_matches = {} THEN [score |-> 0, matches |-> {}]
      ELSE [score |-> base_score, matches |-> all_matches]

(***************************************************************************)
(* JobScorer._score_eligibility                                            *)
(***************************************************************************)

\* The characters of the class [-to] (the hyphen, 't', 'o'), as atoms.
RangeJoinAtoms == {"-", "to"}

\* The position after [-to]+ from j on, or j itself if none is there.
RECURSIVE SkipRangeJoin(_, _)
SkipRangeJoin(text, j) ==
  IF j <= Len(text) /\ text[j] \in RangeJoinAtoms
    THEN SkipRangeJoin(text, j + 1) ELSE j

\* A match of r'(\d+)\s*[-to]+\s*(\d+)\s*years' starting at i: the position
\* of its second number, or 0 if there is no match at i.
RangeSecondAt(text, i) ==
  LET j1 == SkipSpace(text, i + 1)
      j2 == SkipRangeJoin(text, j1)
      j3 == SkipSpace(text, j2)
  IN  IF /\ IsNumber(text[i])
         /\ j2 > j1
         /\ j3 <= Len(text)
         /\ IsNumber(text[j3])
         /\ YearsAt(text, SkipSpace(text, j3 + 1))
        THEN j3 ELSE 0

\* re.findall of the range pattern: the <<min, max>> pairs, left to right,
\* the scan resuming after each match.
RECURSIVE RangeMentionsFrom(_, _)
RangeMentionsFrom(text, i) ==
  IF i > Len(text) THEN <<>>
  ELSE LET j == RangeSecondAt(text, i)
       IN  IF j > 0
             THEN <<<<NumberTable[text[i]], NumberTable[text[j]]>>>>
                    \o RangeMentionsFrom(text, SkipSpace(text, j + 1) + 1)
             ELSE RangeMentionsFrom(text, i + 1)

RangeMentions(text) == RangeMentionsFrom(text, 1)

\* The tag f'requires_{years}+_years' appended to matches['concerns'],
\* named by its number.
ConcernTag(years) == years

\* The matcher with 20 for any skill found in the requirements.
score_eligibility_flat_skill_bonus(eligibility_text) ==
  LET text_lower == Lower(eligibility_text)
      ranges == RangeMentions(text_lower)
      singles == YearMentions(text_lower)
      experience_match ==
        \/ \E n \in 1..Len(ranges) : ranges[n][1] <= 4 /\ ranges[n][2] >= 3
        \/ \E n \in 1..Len(singles) : 2 <= singles[n] /\ singles[n] <= 5
      range_concerns ==
        SelectSeq(ranges, LAMBDA m : ~(m[1] <= 4 /\ m[2] >= 3) /\ m[1] >= 6)
      single_concerns ==
        SelectSeq(singles, LAMBDA y : ~(2 <= y /\ y <= 5) /\ y >= 6)
      concerns ==
        [n \in 1..Len(range_concerns) |-> ConcernTag(range_concerns[n][1])]
          \o [n \in 1..Len(single_concerns) |-> ConcernTag(single_concerns[n])]
      skills_in_requirements == Matching(all_skills, eligibility_text)
      score ==
        Points(50)
          + (IF experience_match THEN Points(30) ELSE 0)
          + (IF Len(skills_in_requirements) >= 1 THEN Points(20) ELSE 0)
          - Len(concerns) * Points(40)
  IN  IF eligibility_text = <<>>
        THEN [score |-> Points(50),
              matches |-> [status |-> "no_requirements_found"]]
        ELSE [score |-> Max(0, Min(Points(100), score)),
              matches |-> [experience_match |-> experience_match,
                           skills_in_requirements |-> skills_in_requirements,
                           concerns |-> concerns]]

score_eligibility(eligibility_text) ==
  LET text_lower == Lower(eligibility_text)
      ranges == RangeMentions(text_lower)
      singles == YearMentions(text_lower)
      experience_match ==
        \/ \E n \in 1..Len(ranges) : ranges[n][1] <= 4 /\ ranges[n][2] >= 3
        \/ \E n \in 1..Len(singles) : 2 <= singles[n] /\ singles[n] <= 5
      range_concerns ==
        SelectSeq(ranges, LAMBDA m : ~(m[1] <= 4 /\ m[2] >= 3) /\ m[1] >= 6)
      single_concerns ==
        SelectSeq(singles, LAMBDA y : ~(2 <= y /\ y <= 5) /\ y >= 6)
      concerns ==
        [n \in 1..Len(range_concerns) |-> ConcernTag(range_concerns[n][1])]
          \o [n \in 1..Len(single_concerns) |-> ConcernTag(single_concerns[n])]
      skills_in_requirements == Matching(all_skills, eligibility_text)
      score ==
        Points(50)
          + (IF experience_match THEN Points(30) ELSE 0)
          + (IF Len(skills_in_requirements) >= 3 THEN Points(20)
             ELSE IF Len(skills_in_requirements) >= 1 THEN Points(10) ELSE 0)
          - Len(concerns) * Points(40)
  IN  IF eligibility_text = <<>>
        THEN [score |-> Points(50),
              matches |-> [status |-> "no_requirements_found"]]
        ELSE [score |-> Max(0, Min(Points(100), score)),
              matches |-> [experience_match |-> experience_match,
                           skills_in_requirements |-> skills_in_requirements,
                           concerns |-> concerns]]

(***************************************************************************)
(* JobScorer._score_visa                                                   *)
(***************************************************************************)

IsAmbiguousNegative(keyword) ==
  \E n \in 1..Len(AmbiguousNegatives) : AmbiguousNegatives[n] = Lower(keyword)

\* The classifier with the positive keywords looked at before the negative
\* ones.
score_visa_positive_first(text) ==
  LET positive_found == Matching(visa_positive, text)
      all_negative == Matching(visa_negative, text)
      negative_found ==
        SelectSeq(all_negative, LAMBDA kw : ~IsAmbiguousNegative(kw))
  IN  IF positive_found # <<>>
        THEN [score |-> Points(80), status |-> "explicit",
              keywords |-> positive_found]
      ELSE IF negative_found # <<>>
        THEN [score |-> 0, status |-> "excluded", keywords |-> negative_found]
      ELSE [score |-> Points(50), status |-> "none", keywords |-> <<>>]

\* The classifier with the ambiguous wording looked at before the positive
\* keywords.
score_visa_ambiguous_first(text) ==
  LET positive_found == Matching(visa_positive, text)
      all_negative == Matching(visa_negative, text)
      negative_found ==
        SelectSeq(all_negative, LAMBDA kw : ~IsAmbiguousNegative(kw))
      ambiguous_found ==
        SelectSeq(all_negative, LAMBDA kw : IsAmbiguousNegative(kw))
  IN  IF negative_found # <<>>
        THEN [score |-> 0, status |-> "excluded", keywords |-> negative_found]
      ELSE IF ambiguous_found # <<>>
        THEN [score |-> Points(50), status |-> "none",
              keywords |-> ambiguous_found]
      ELSE IF positive_found # <<>>
        THEN IF \E n \in 1..Len(positive_found) :
                  AnySubstring(E3Markers, positive_found[n])
               THEN [score |-> Points(100), status |-> "explicit",
                     keywords |-> positive_found]
               ELSE [score |-> Points(80), status |-> "explicit",
                     keywords |-> positive_found]
      ELSE [score |-> Points(50), status |-> "none", keywords |-> <<>>]

score_visa(text) ==
  LET positive_found == Matching(visa_positive, text)
      all_negative == Matching(visa_negative, text)
      negative_found ==
        SelectSeq(all_negative, LAMBDA kw : ~IsAmbiguousNegative(kw))
      ambiguous_found ==
        SelectSeq(all_negative, LAMBDA kw : IsAmbiguousNegative(kw))
  IN  IF negative_found # <<>>
        THEN [score |-> 0, status |-> "excluded", keywords |-> negative_found]
      ELSE IF positive_found # <<>>
        THEN IF \E n \in 1..Len(positive_found) :
                  AnySubstring(E3Markers, positive_found[n])
               THEN [score |-> Points(100), status |-> "explicit",
                     keywords |-> positive_found]
               ELSE [score |-> Points(80), status |-> "explicit",
                     keywords |-> positive_found]
      ELSE IF ambiguous_found # <<>>
        THEN [score |-> Points(50), status |-> "none",
              keywords |-> ambiguous_found]
      ELSE [score |-> Points(50), status |-> "none", keywords |-> <<>>]

(***************************************************************************)
(* JobScorer._assess_location                                              *)
(***************************************************************************)

\* The assessor with the remote keywords looked at before the home city.
assess_location_remote_first(location) ==
  IF location = <<>>
    THEN [ok |-> TRUE, penalty |-> Mult(100), flag |-> "unknown"]
  ELSE IF AnySubstring(RemoteKeywords, Lower(location))
    THEN [ok |-> TRUE, penalty |-> Mult(100), flag |-> "remote"]
  ELSE IF AnySubstring(NycKeywords, Lower(location))
    THEN [ok |-> TRUE, penalty |-> Mult(100), flag |-> "preferred"]
  ELSE IF AnySubstring(NearbyKeywords, Lower(location))
    THEN [ok |-> TRUE, penalty |-> Mult(90), flag |-> "nearby"]
  ELSE [ok |-> FALSE, penalty |-> Mult(75), flag |-> "outside"]

assess_location(location) ==
  IF location = <<>>
    THEN [ok |-> TRUE, penalty |-> Mult(100), flag |-> "unknown"]
  ELSE IF AnySubstring(NycKeywords, Lower(location))
    THEN [ok |-> TRUE, penalty |-> Mult(100), flag |-> "preferred"]
  ELSE IF AnySubstring(RemoteKeywords, Lower(location))
    THEN [ok |-> TRUE, penalty |-> Mult(100), flag |-> "remote"]
  ELSE IF AnySubstring(NearbyKeywords, Lower(location))
    THEN [ok |-> TRUE, penalty |-> Mult(90), flag |-> "nearby"]
  ELSE [ok |-> FALSE, penalty |-> Mult(75), flag |-> "outside"]

(***************************************************************************)
(* JobScorer._assess_seniority, JobScorer._check_seniority                 *)
(***************************************************************************)

\* f"{a} {b}"
Combine(a, b) == a \o <<" ">> \o b

\* The assessor with the years rule ahead of the leadership rule.
assess_seniority_years_first(title, description) ==
  LET combined == Lower(Combine(title, description))
      max_years == MaxOf(YearMentions(combined))
  IN  IF max_years >= 8
        THEN [ok |-> FALSE, flag |-> "years_8_plus", penalty |-> Mult(50)]
      ELSE IF max_years >= 6
        THEN [ok |-> FALSE, flag |-> "years_6_plus", penalty |-> Mult(60)]
      ELSE IF max_years = 5
        THEN [ok |-> TRUE, flag |-> "years_5_plus", penalty |-> Mult(85)]
      ELSE IF AnyMatching(LeadershipKeywords, combined)
        THEN [ok |-> FALSE, flag |-> "leadership", penalty |-> Mult(50)]
      ELSE IF WordSearch(<<"senior">>, combined)
        THEN [ok |-> FALSE, flag |-> "senior_title", penalty |-> Mult(60)]
      ELSE [ok |-> TRUE, flag |-> "ok", penalty |-> Mult(100)]

\* The assessor stopping at the years rule on any years mention, whatever
\* its number.
assess_seniority_stop_at_mention(title, description) ==
  LET combined == Lower(Combine(title, description))
      mentions == YearMentions(combined)
      max_years == MaxOf(mentions)
  IN  IF AnyMatching(LeadershipKeywords, combined)
        THEN [ok |-> FALSE, flag |-> "leadership", penalty |-> Mult(50)]
      ELSE IF max_years >= 8
        THEN [ok |-> FALSE, flag |-> "years_8_plus", penalty |-> Mult(50)]
      ELSE IF max_years >= 6
        THEN [ok |-> FALSE, flag |-> "years_6_plus", penalty |-> Mult(60)]
      ELSE IF max_years = 5
        THEN [ok |-> TRUE, flag |-> "years_5_plus", penalty |-> Mult(85)]
      ELSE IF mentions # <<>>
        THEN [ok |-> TRUE, flag |-> "ok", penalty |-> Mult(100)]
      ELSE IF WordSearch(<<"senior">>, combined)
        THEN [ok |-> FALSE, flag |-> "senior_title", penalty |-> Mult(60)]
      ELSE [ok |-> TRUE, flag |-> "ok", penalty |-> Mult(100)]

assess_seniority(title, description) ==
  LET combined == Lower(Combine(title, description))
      max_years == MaxOf(YearMentions(combined))
  IN  IF AnyMatching(LeadershipKeywords, combined)
        THEN [ok |-> FALSE, flag |-> "leadership", penalty |-> Mult(50)]
      ELSE IF max_years >= 8
        THEN [ok |-> FALSE, flag |-> "years_8_plus", penalty |-> Mult(50)]
      ELSE IF max_years >= 6
        THEN [ok |-> FALSE, flag |-> "years_6_plus", penalty |-> Mult(60)]
      ELSE IF max_years = 5
        THEN [ok |-> TRUE, flag |-> "years_5_plus", penalty |-> Mult(85)]
      ELSE IF WordSearch(<<"senior">>, combined)
        THEN [ok |-> FALSE, flag |-> "senior_title", penalty |-> Mult(60)]
      ELSE [ok |-> TRUE, flag |-> "ok", penalty |-> Mult(100)]

check_seniority(title, description) == assess_seniority(title, description).ok

(***************************************************************************)
(* AIJobScorer.score_job_ai                                                *)
(***************************************************************************)

\* len(description) < 50 is insufficient text for the provider.
AiMinDescription == 50

\* What the embedding model does in one call: it raises, or it yields a
\* cosine similarity, here in ten-thousandths (-10000..10000).
Similarities == {-2500, 3517, 10000}

ProviderAnswers ==
  {[kind |-> "raise", similarity |-> 0]}
    \cup {[kind |-> "similarity", similarity |-> s] : s \in Similarities}

\* The call is not made, or returns before the model is asked.
NoAnswer == [kind |-> "none", similarity |-> 0]

\* The linear map without its two cut-offs: what the score would be if the
\* similarity were not clamped to 0.1..0.6 first.
SimilarityScoreUnclamped(similarity) == (similarity - 1000) * 2

\* similarity < 0.1 gives 0, similarity > 0.6 gives 100, linear in between.
SimilarityScore(similarity) ==
  IF similarity < 1000 THEN 0
  ELSE IF similarity > 6000 THEN Points(100)
  ELSE (similarity - 1000) * 2

\* A posting is a dict: a key may be missing, and a key that is there may
\* hold None instead of a text.  The keys that hold None are listed under
\* "none_valued"; a posting without that entry has none.
IsNone(job_data, key) ==
  /\ "none_valued" \in DOMAIN job_data
  /\ key \in job_data.none_valued

\* job_data.get(key, ''): the text under the key, '' if the key is missing.
\* Not to be asked of a key that holds None.
DictGet(job_data, key) ==
  IF key \in DOMAIN job_data THEN job_data[key] ELSE <<>>

score_job_ai(scorer, job_data, answer) ==
  IF scorer # "loaded"
    THEN [score |-> Points(50), method |-> "ai_unavailable"]
  ELSE IF DictGet(job_data, "description") = <<>>
          \/ CharLen(DictGet(job_data, "description")) < AiMinDescription
    THEN [score |-> Points(50), method |-> "insufficient_text"]
  ELSE IF answer.kind = "raise"
    THEN [score |-> Points(50), method |-> "error"]
  ELSE [score |-> SimilarityScore(answer.similarity),
        method |-> "sentence_transformer"]

(***************************************************************************)
(* JobScorer.score_job                                                     *)
(***************************************************************************)

\* The class-level table as the class body sets it.
InitialWeights ==
  [ai_semantic |-> 50, technical |-> 20, industry |-> 12, role |-> 10,
   eligibility |-> 5, visa |-> 3]

Categories == DOMAIN InitialWeights

\* len(description) > 50 for the semantic provider to be asked.
MinDescriptionLen == 50

\* bool(self.ai_scorer and description and len(description) > 50)
AiActive(scorer, description) ==
  /\ scorer # "none"
  /\ description # <<>>
  /\ CharLen(description) > MinDescriptionLen

\* sum(weights.values())
RECURSIVE SumValues(_)
SumValues(f) ==
  IF DOMAIN f = {} THEN 0
  ELSE LET k == CHOOSE x \in DOMAIN f : TRUE
       IN  f[k] + SumValues([x \in DOMAIN f \ {k} |-> f[x]])

\* The adjustment done on the class table itself instead of on a copy of it.
AdjustWeightsInPlace(table, ai_active) ==
  IF ~ai_active /\ "ai_semantic" \in DOMAIN table
    THEN LET popped == [k \in DOMAIN table \ {"ai_semantic"} |-> table[k]]
             total == IF SumValues(popped) # 0 THEN SumValues(popped) ELSE 1
             scaled == [k \in DOMAIN popped |-> (popped[k] * 100) \div total]
         IN  [weights |-> scaled, table |-> scaled]
    ELSE [weights |-> table, table |-> table]

\* The weights of one call and the class table after it: a copy of the
\* table, without the semantic entry and rescaled when the provider is not
\* active.
AdjustWeights(table, ai_active) ==
  IF ~ai_active /\ "ai_semantic" \in DOMAIN table
    THEN LET popped == [k \in DOMAIN table \ {"ai_semantic"} |-> table[k]]
             total == IF SumValues(popped) # 0 THEN SumValues(popped) ELSE 1
         IN  [weights |-> [k \in DOMAIN popped |-> (popped[k] * 100) \div total],
              table |-> table]
    ELSE [weights |-> table, table |-> table]

\* weights.get(k, 0)
Get(weights, k) == IF k \in DOMAIN weights THEN weights[k] ELSE 0

\* The multipliers applied to the matchers' sub-scores only, the semantic
\* term left unscaled.
WeightedTotalScalingSubScores(scores, weights, location_penalty, seniority_penalty) ==
  scores.ai_semantic * Get(weights, "ai_semantic") * Mult(100) * Mult(100)
    + (scores.technical * Get(weights, "technical")
         + scores.industry * Get(weights, "industry")
         + scores.role * Get(weights, "role")
         + scores.eligibility * Get(weights, "eligibility")
         + scores.visa * Get(weights, "visa"))
        * location_penalty * seniority_penalty

\* A visa sub-score of 0 zeroing the whole total.
WeightedTotalZeroedByVisa(scores, weights, location_penalty, seniority_penalty) ==
  IF scores.visa = 0 THEN 0
  ELSE (scores.ai_semantic * Get(weights, "ai_semantic")
          + scores.technical * Get(weights, "technical")
          + scores.industry * Get(weights, "industry")
          + scores.role * Get(weights, "role")
          + scores.eligibility * Get(weights, "eligibility")
          + scores.visa * Get(weights, "visa"))
         * location_penalty * seniority_penalty

\* The weighted sum of the sub-scores with both multipliers applied, in
\* TotalUnit units per point.
WeightedTotal(scores, weights, location_penalty, seniority_penalty) ==
  (scores.ai_semantic * Get(weights, "ai_semantic")
     + scores.technical * Get(weights, "technical")
     + scores.industry * Get(weights, "industry")
     + scores.role * Get(weights, "role")
     + scores.eligibility * Get(weights, "eligibility")
     + scores.visa * Get(weights, "visa"))
    * location_penalty * seniority_penalty

\* The breakdown entry of the result.
Breakdown(scores) == [c \in DOMAIN scores |-> Round1(scores[c])]

(***************************************************************************)
(* JobScorer._generate_reasoning                                           *)
(***************************************************************************)

\* any(kw in all_terms for kw in kws), all_terms being the matched terms
\* joined by blanks and lowered.  No keyword lies across the blank between
\* two terms of the profile, so the terms are searched one by one.
AnyTermHas(kws, terms) ==
  \E n \in 1..Len(terms) : AnySubstring(kws, Lower(terms[n]))

\* What of the matches the sentence depends on.
reasoning_kind(tech_matches, industry_matches, role_matches) ==
  LET terms == tech_matches \o role_matches \o industry_matches
  IN  [is_ml |-> AnyTermHas(ml_keywords, terms),
       is_backend |-> AnyTermHas(backend_keywords, terms),
       is_fullstack |-> AnyTermHas(fullstack_keywords, terms),
       has_priority |-> AnyTermHas(priority_keywords, terms),
       tech_str |-> IF tech_matches # <<>> THEN tech_matches[1]
                    ELSE Words(<<"your", "stack">>)]

\* The sentence returned, named by the words it begins with; the sentence
\* for a middling posting of no kind ends with tech_str.
generate_reasoning(kind, visa_status, seniority_ok, total_score) ==
  IF total_score >= 75 * TotalUnit
    THEN [sentence |->
            IF kind.is_ml /\ kind.has_priority
              THEN "My ML pipeline work at FibreTrace"
            ELSE IF kind.is_ml
              THEN "Having built production ML systems at FibreTrace"
            ELSE IF kind.is_backend /\ kind.has_priority
              THEN "My experience scaling backend systems"
            ELSE IF kind.is_backend THEN "From building scalable APIs"
            ELSE IF kind.is_fullstack THEN "My full-stack work"
            ELSE "My experience constructing production systems"]
  ELSE IF total_score >= 50 * TotalUnit
    THEN IF kind.is_ml
           THEN [sentence |-> "While my ML work at FibreTrace"]
         ELSE IF kind.is_backend
           THEN [sentence |-> "My backend engineering at Friday Technologies"]
         ELSE IF kind.is_fullstack
           THEN [sentence |-> "Though my focus has been backend-heavy"]
         ELSE [sentence |-> "My foundation in backend engineering",
               working_with |-> kind.tech_str]
  ELSE [sentence |->
          IF visa_status = "excluded" THEN "This looks interesting"
          ELSE IF ~seniority_ok THEN "While this role seems geared"
          ELSE "Though the technical stack differs"]

\* The part of a call that does not depend on the provider: the lowered
\* texts, the five matchers and the two gates.
score_components(job_data) ==
  LET title == Lower(DictGet(job_data, "title"))
      description == Lower(DictGet(job_data, "description"))
      location == Lower(DictGet(job_data, "location"))
      combined_text == Combine(title, description)
      eligibility_text == extract_eligibility_sections(description)
      tech == score_technical(combined_text, eligibility_text)
      industry == score_industry(combined_text)
      role == score_role(title, description)
      role_list == SelectSeq(roles, LAMBDA r : r \in role.matches)
  IN  [description |-> description,
       tech |-> tech,
       industry |-> industry,
       role |-> role,
       eligibility |-> score_eligibility(eligibility_text),
       visa |-> score_visa(combined_text),
       loc |-> assess_location(location),
       seniority |-> assess_seniority(title, description),
       kind |-> reasoning_kind(tech.matches, industry.matches, role_list)]

\* The call, given what its matchers and gates return and what the provider
\* does in it.
score_job_with(table, scorer, job_data, parts, answer, tie_up) ==
  LET ai_active == AiActive(scorer, parts.description)
      ai == IF ai_active THEN score_job_ai(scorer, job_data, answer)
            ELSE [score |-> 0,
                  method |-> IF scorer = "none" THEN "disabled"
                             ELSE "not_available"]
      adjusted == AdjustWeights(table, ai_active)
      scores == [ai_semantic |-> ai.score, technical |-> parts.tech.score,
                 industry |-> parts.industry.score, role |-> parts.role.score,
                 eligibility |-> parts.eligibility.score,
                 visa |-> parts.visa.score]
      total_score ==
        WeightedTotal(scores, adjusted.weights, parts.loc.penalty,
                      parts.seniority.penalty)
  IN  [table |-> adjusted.table,
       returned |->
         [fit_score |-> RoundTotal(total_score, tie_up),
          breakdown |-> Breakdown(scores),
          reasoning |->
            generate_reasoning(parts.kind, parts.visa.status,
                               parts.seniority.ok, total_score),
          matches |->
            [tech |-> SubSeq(parts.tech.matches, 1,
                             Min(10, Len(parts.tech.matches))),
             industry |-> parts.industry.matches,
             role |-> parts.role.matches,
             eligibility |-> parts.eligibility.matches,
             visa_keywords |-> parts.visa.keywords],
          ai_details |-> [method |-> ai.method],
          visa_status |-> parts.visa.status,
          location_ok |-> parts.loc.ok,
          location_flag |-> parts.loc.flag,
          seniority_ok |-> parts.seniority.ok,
          seniority_flag |-> parts.seniority.flag],
       \* the locals of the call the properties speak of
       locals |->
         [ai_active |-> ai_active,
          provider |-> answer,
          weights |-> adjusted.weights,
          scores |-> scores,
          location_penalty |-> parts.loc.penalty,
          seniority_penalty |-> parts.seniority.penalty,
          total_score |-> total_score]]

score_job(table, scorer, job_data, answer, tie_up) ==
  score_job_with(table, scorer, job_data, score_components(job_data), answer,
                 tie_up)

(***************************************************************************)
(* The postings                                                            *)
(***************************************************************************)

Titles ==
  {Words(<<"Staff", "Engineer">>),
   Words(<<"Senior", "Machine", "Learning", "Engineer">>),
   Words(<<"Machine", "Learning", "Engineer">>)}

Locations ==
  {<<>>,
   <<"New", " ", "York", ",", " ", "NY">>,
   <<"Boston", ",", " ", "MA">>,
   <<"Austin", ",", " ", "TX">>}

HeaderLine == <<"Requirements", ":">>

\* "must be authorized to work in the US, no sponsorship"
NoSponsorshipLine ==
  Words(<<"must", "be", "authorized", "to", "work", "in", "the", "US">>)
    \o <<",", " ">> \o Words(<<"no", "sponsorship">>)

E3Line == <<"E", "-", "3", " ">> \o Words(<<"visa", "sponsorship", "available">>)

TenYearsLine == <<"10", "+", " ">> \o Words(<<"years", "experience", "required">>)

FiveYearsLine == <<"5", "+", " ">> \o Words(<<"years", "leading", "python", "projects">>)

\* "6+ years experience required, 6 years in production"
SixYearsLine ==
  <<"6", "+", " ">> \o Words(<<"years", "experience", "required">>)
    \o <<",", " ">> \o Words(<<"6", "years", "in", "production">>)

SkillsLine ==
  Words(<<"3", "years", "of", "python", "aws", "sql", "docker", "react",
          "swift", "pytorch", "tensorflow", "nlp", "llm", "graphql", "in",
          "healthcare", "fashion", "and", "supply", "chain">>)

LinePool ==
  {HeaderLine, NoSponsorshipLine, E3Line, TenYearsLine, SixYearsLine,
   FiveYearsLine, SkillsLine}

\* The most lines a description has.
MaxLines == 2

\* The sequences of at most n lines of the pool, no line twice.
RECURSIVE LineSeqs(_)
LineSeqs(n) ==
  IF n = 0 THEN {<<>>}
  ELSE LET shorter == LineSeqs(n - 1)
       IN  shorter
             \cup {ls \o <<l>> : <<ls, l>> \in
                      {p \in shorter \X LinePool :
                         \A k \in 1..Len(p[1]) : p[1][k] # p[2]}}

Descriptions == {Join("\n", ls) : ls \in LineSeqs(MaxLines)}

Jobs == [title : Titles, description : Descriptions, location : Locations]

(***************************************************************************)
(* The scoring loop                                                        *)
(***************************************************************************)

NoJob == [title |-> <<>>, description |-> <<>>, location |-> <<>>]

NoResult == [fit_score |-> 0]

\* _ai_scorer_instance = None, no AIJobScorer constructed.
NoInstance == [instance |-> 0, constructed |-> 0]

\* No JobApplicator has been made.
NoApplicator == [min_fit_score |-> 0]

\* JobScorer.__init__: the scorer with the class table; the provider is
\* missing, present without its model, or present with it.
Init ==
  /\ WEIGHTS = InitialWeights
  /\ ai_scorer \in {"none", "unloaded", "loaded"}
  /\ pc = "idle"
  /\ job = NoJob
  /\ result = [returned |-> NoResult]
  /\ calls = <<>>
  /\ applicator = NoApplicator
  /\ db = <<>>
  /\ outbox = {}
  /\ ai_scorer_instance = NoInstance

\* The loop takes the next posting.
FetchJob(job_data) ==
  /\ pc = "idle"
  /\ pc' = "fetched"
  /\ job' = job_data
  /\ UNCHANGED <<WEIGHTS, ai_scorer, result, other_objects>>

\* What the provider may do in a call for this posting.
AnswersFor(scorer, job_data) ==
  IF scorer = "loaded"
       /\ AiActive(scorer, Lower(DictGet(job_data, "description")))
    THEN ProviderAnswers ELSE {NoAnswer}

\* What one call of score_job may give: the provider's answer apart, all of
\* it is determined but the direction in which round() takes a total that is
\* an exact tie.
ScoreOutcomes(table, scorer, job_data) ==
  LET parts == score_components(job_data)
  IN  {score_job_with(table, scorer, job_data, parts, answer, tie_up) :
         answer \in AnswersFor(scorer, job_data), tie_up \in BOOLEAN}

\* The first three statements of score_job call .lower() on what
\* job_data.get returns: None has no such method.
LowerRaises(job_data) ==
  \E key \in {"title", "description", "location"} : IsNone(job_data, key)

\* score_result = self.scorer.score_job(job_data); an error of the call
\* leaves the loop and ends the run.
ScoreJob ==
  /\ pc = "fetched"
  /\ IF LowerRaises(job)
       THEN /\ result' = [returned |-> NoResult, raised |-> "AttributeError"]
            /\ pc' = "raised"
            /\ UNCHANGED WEIGHTS
       ELSE /\ \E r \in ScoreOutcomes(WEIGHTS, ai_scorer, job) :
                 /\ result' = [returned |-> r.returned, locals |-> r.locals]
                 /\ WEIGHTS' = r.table
            /\ pc' = "scored"
  /\ UNCHANGED <<ai_scorer, job, other_objects>>

\* The loop goes on to the next posting.
NextJob ==
  /\ pc = "scored"
  /\ pc' = "idle"
  /\ job' = NoJob
  /\ result' = [returned |-> NoResult]
  /\ UNCHANGED <<WEIGHTS, ai_scorer, other_objects>>

Next ==
  \/ \E job_data \in Jobs : FetchJob(job_data)
  \/ ScoreJob
  \/ NextJob

Spec == Init /\ [][Next]_vars

(***************************************************************************)
(* Properties of score_job                                                 *)
(*                                                                         *)
(* fit_score and the breakdown entries are in tenths of a point, the       *)
(* sub-scores of the call in hundredths, its total in TotalUnit units.     *)
(***************************************************************************)

\* A call of score_job has returned and its result is held.
Scored == pc = "scored"

Returned == result.returned

Locals == result.locals

\* The lowered title and description of the posting held, joined as
\* score_job and the seniority assessor join them.
JobText == Combine(Lower(job.title), Lower(job.description))

\* sum of sub_score x weight over the components that have a weight
ContributionSum(scores, weights) ==
  SumValues([c \in DOMAIN weights |-> scores[c] * weights[c]])

\* The negative visa keywords outside the ambiguous set.
HardNegatives == SelectSeq(visa_negative, LAMBDA kw : ~IsAmbiguousNegative(kw))

\* The largest number of a years mention in the posting held, 0 if none.
JobMaxYears == MaxOf(YearMentions(JobText))

\* C1: for every posting and every state of the semantic provider, the
\* fit_score of the result and each of its six breakdown entries lie between
\* 0 and 100.
ScoresInRange ==
  Scored =>
    /\ 0 <= Returned.fit_score /\ Returned.fit_score <= 1000
    /\ DOMAIN Returned.breakdown = Categories
    /\ \A c \in Categories :
         0 <= Returned.breakdown[c] /\ Returned.breakdown[c] <= 1000

\* A result at the top of the range: the provider answered with a
\* similarity above the upper cut-off, the technical sub-score is full and
\* the fit_score is 90 or more.
ScoresInRangeWitness ==
  /\ Scored
  /\ Returned.ai_details.method = "sentence_transformer"
  /\ Returned.breakdown.ai_semantic = 1000
  /\ Returned.breakdown.technical = 1000
  /\ Returned.fit_score >= 900

\* C2 as stated: whenever the provider is absent, could not load its model,
\* fails in the call, or the description is not longer than the minimum,
\* the call's weights have no semantic entry and sum to 100.  The code keeps
\* the semantic weight of 50 on a placeholder score of 50 when the provider
\* object exists but has no model or raises.
SemanticWeightRemovedWhenUnusable ==
  (/\ Scored
   /\ \/ ai_scorer # "loaded"
      \/ Returned.ai_details.method \in {"ai_unavailable", "error"}
      \/ CharLen(Lower(job.description)) <= MinDescriptionLen)
    => /\ "ai_semantic" \notin DOMAIN Locals.weights
       /\ SumValues(Locals.weights) = 100

MultipliersScaleTheSumOnly ==
  Scored =>
    LET total ==
          ContributionSum(Locals.scores, Locals.weights)
            * Locals.location_penalty * Locals.seniority_penalty
    IN  /\ Locals.total_score = total
        /\ Returned.fit_score \in {RoundTotal(total, tie_up) : tie_up \in BOOLEAN}
        /\ Returned.breakdown = [c \in Categories |-> Round1(Locals.scores[c])]
        /\ job.location = <<>> =>
             \A location \in Locations \ {<<>>} :
               score_job(WEIGHTS, ai_scorer,
                         [job EXCEPT !.location = location], Locals.provider,
                         FALSE).returned.breakdown = Returned.breakdown

\* A scored posting with both multipliers below 1 and a semantic sub-score
\* that counts.
MultipliersScaleTheSumOnlyWitness ==
  /\ Scored
  /\ Locals.location_penalty = Mult(75)
  /\ Locals.seniority_penalty = Mult(60)
  /\ Locals.ai_active
  /\ Locals.scores.ai_semantic > 0
  /\ Returned.fit_score > 0

\* C5: a posting whose title and description contain a hard-negative visa
\* keyword as a whole word has visa_status excluded and visa sub-score 0,
\* whatever positive or ambiguous keywords it contains too.
VisaShortCircuit ==
  (Scored /\ AnyMatching(HardNegatives, JobText)) =>
    /\ Returned.visa_status = "excluded"
    /\ Locals.scores.visa = 0
    /\ Returned.breakdown.visa = 0

\* An excluded posting that contains an E-3 keyword and an ambiguous
\* keyword besides the hard-negative one.
VisaShortCircuitWitness ==
  /\ Scored
  /\ AnyMatching(HardNegatives, JobText)
  /\ \E n \in 1..Len(visa_positive) :
       /\ WordSearch(visa_positive[n], JobText)
       /\ AnySubstring(E3Markers, visa_positive[n])
  /\ AnyMatching(AmbiguousNegatives, JobText)
  /\ Returned.visa_status = "excluded"

\* C6: for an excluded posting the total before rounding is what it would
\* be with a visa sub-score of 50, less 50 x visa weight / 100 x location
\* multiplier x seniority multiplier; both multipliers are those of the
\* posting's location and seniority; and the total is 0 only if every other
\* weighted component contributes 0.
ExcludedZeroesVisaOnly ==
  (Scored /\ Returned.visa_status = "excluded") =>
    LET location_penalty == assess_location(Lower(job.location)).penalty
        seniority_penalty ==
          assess_seniority(Lower(job.title), Lower(job.description)).penalty
        neutral == [Locals.scores EXCEPT !.visa = Points(50)]
        slice == Points(50) * Locals.weights.visa
    IN  /\ Locals.scores.visa = 0
        /\ Locals.location_penalty = location_penalty
        /\ Locals.seniority_penalty = seniority_penalty
        /\ ContributionSum(neutral, Locals.weights) * location_penalty
               * seniority_penalty
             - Locals.total_score
             = slice * location_penalty * seniority_penalty
        /\ Locals.total_score = 0 =>
             \A c \in DOMAIN Locals.weights \ {"visa"} :
               Locals.scores[c] * Locals.weights[c] = 0

\* An excluded posting with both multipliers below 1 whose total is not 0.
ExcludedZeroesVisaOnlyWitness ==
  /\ Scored
  /\ Returned.visa_status = "excluded"
  /\ Locals.location_penalty < Mult(100)
  /\ Locals.seniority_penalty < Mult(100)
  /\ Returned.fit_score > 0

\* C7 as stated: every excluded posting has a fit_score below 50.  The
\* visa component weighs 3 of 100 (6 without the semantic component), so an
\* excluded posting that matches well keeps a high score.
ExcludedScoresBelow50 ==
  (Scored /\ Returned.visa_status = "excluded") => Returned.fit_score < 500

YearsMentionEndsEvaluation ==
  (/\ Scored
   /\ ~AnyMatching(LeadershipKeywords, JobText)
   /\ YearMentions(JobText) # <<>>)
    => Returned.seniority_flag # "senior_title"

\* C9 amended: with no leadership keyword, evaluation ends at the years
\* rule only when the largest years mention is 5 or more (8 or more gives
\* years_8_plus, 6 or 7 years_6_plus, 5 years_5_plus); when every mention
\* is below 5, as when there is none, the whole-word 'senior' rule is
\* evaluated and gives senior_title if the word occurs, ok if not.
YearsRuleEndsEvaluationFromFive ==
  Scored =>
    LET text == JobText
        max_years == MaxOf(YearMentions(text))
    IN  ~AnyMatching(LeadershipKeywords, text) =>
          Returned.seniority_flag =
            IF max_years >= 8 THEN "years_8_plus"
            ELSE IF max_years >= 6 THEN "years_6_plus"
            ELSE IF max_years = 5 THEN "years_5_plus"
            ELSE IF WordSearch(<<"senior">>, text) THEN "senior_title"
            ELSE "ok"

\* A posting with the word 'senior', no leadership keyword and years
\* mentions all below 5, flagged senior_title.
YearsRuleEndsEvaluationFromFiveWitness ==
  /\ Scored
  /\ ~AnyMatching(LeadershipKeywords, JobText)
  /\ YearMentions(JobText) # <<>>
  /\ JobMaxYears < 5
  /\ Returned.seniority_flag = "senior_title"

\* C10 as stated: seniority_ok, which _check_seniority returns, is false for
\* every posting with the whole word 'senior' or a largest years mention of
\* 6 or more.  The code returns at the years rule with seniority_ok true
\* when the largest mention is exactly 5, before it looks for 'senior'.
TooSeniorIsNotOk ==
  (/\ Scored
   /\ \/ WordSearch(<<"senior">>, JobText)
      \/ JobMaxYears >= 6)
    => /\ Returned.seniority_ok = FALSE
       /\ check_seniority(Lower(job.title), Lower(job.description)) = FALSE

(***************************************************************************)
(* The postings of the scenarios                                           *)
(*                                                                         *)
(* A second pool: short descriptions that tell the visa rules apart, the   *)
(* locations that tell the location rules apart, and postings whose        *)
(* description is missing or None.                                         *)
(***************************************************************************)

MachineLearningEngineer == Words(<<"Machine", "Learning", "Engineer">>)

SoftwareEngineer == Words(<<"Software", "Engineer">>)

ScenarioTitles == {MachineLearningEngineer, SoftwareEngineer}

PythonLine == <<"Python">>

MachineLearningLine == Words(<<"Machine", "Learning">>)

WillSponsorLine == Words(<<"we", "will", "sponsor">>)

CurrentlyAuthorizedLine == Words(<<"currently", "authorized", "candidates">>)

MustBeAuthorizedLine ==
  Words(<<"must", "be", "authorized", "to", "work", "in", "the", "US">>)

CannotSponsorLine == Words(<<"we", "cannot", "sponsor">>)

ScenarioLinePool ==
  {E3Line, PythonLine, MachineLearningLine, WillSponsorLine,
   CurrentlyAuthorizedLine, MustBeAuthorizedLine, CannotSponsorLine}

\* The most lines a description of the scenarios has.
MaxScenarioLines == 3

\* The sequences of at most n lines of the scenario pool, no line twice.
RECURSIVE ScenarioLineSeqs(_)
ScenarioLineSeqs(n) ==
  IF n = 0 THEN {<<>>}
  ELSE LET shorter == ScenarioLineSeqs(n - 1)
       IN  shorter
             \cup {ls \o <<l>> : <<ls, l>> \in
                      {p \in shorter \X ScenarioLinePool :
                         \A k \in 1..Len(p[1]) : p[1][k] # p[2]}}

ScenarioDescriptions ==
  {Join("\n", ls) : ls \in ScenarioLineSeqs(MaxScenarioLines)}

NewYorkNY == <<"New", " ", "York", ",", " ", "NY">>

Places ==
  {NewYorkNY, <<"Remote">>, <<"Boston", ",", " ", "MA">>,
   <<"San", " ", "Francisco", ",", " ", "CA">>}

\* The most places a location names.
MaxPlaces == 2

RECURSIVE PlaceSeqs(_)
PlaceSeqs(n) ==
  IF n = 0 THEN {<<>>}
  ELSE LET shorter == PlaceSeqs(n - 1)
       IN  shorter \cup {ps \o <<p>> : ps \in shorter, p \in Places}

\* '', a blank, and the places of a sequence with "/" between them.
ScenarioLocations ==
  {Join("/", ps) : ps \in PlaceSeqs(MaxPlaces)} \cup {<<" ">>}

\* The described postings are in New York; the postings elsewhere have the
\* description '', no description key, or None under it.
ScenarioJobs ==
  [title : ScenarioTitles, description : ScenarioDescriptions,
   location : {NewYorkNY}]
    \cup [title : ScenarioTitles, description : {<<>>},
          location : ScenarioLocations]
    \cup [title : ScenarioTitles, location : ScenarioLocations]
    \cup [title : ScenarioTitles, description : {<<>>},
          location : ScenarioLocations, none_valued : {{"description"}}]

\* The posting scored once more by the same scorer, as the rescoring
\* scripts do with a stored posting; the provider answers as it did.  round
\* is a function: an equal total is rounded as before.
ScoreAgain ==
  /\ pc = "scored"
  /\ \E r \in ScoreOutcomes(WEIGHTS, ai_scorer, job) :
       /\ r.locals.provider = Locals.provider
       /\ r.locals.total_score = Locals.total_score
            => r.returned.fit_score = Returned.fit_score
       /\ result' = [returned |-> r.returned, locals |-> r.locals]
       /\ WEIGHTS' = r.table
  /\ pc' = "rescored"
  /\ UNCHANGED <<ai_scorer, job, other_objects>>

ScenarioNext ==
  \/ \E job_data \in ScenarioJobs : FetchJob(job_data)
  \/ ScoreJob
  \/ ScoreAgain
  \/ NextJob

ScenarioSpec == Init /\ [][ScenarioNext]_vars

(***************************************************************************)
(* Properties of the scenarios                                             *)
(***************************************************************************)

\* The descriptions of scenario C: the three lines in any order.
ScenarioCDescriptions ==
  {Join("\n", ls) : ls \in
     {p \in ScenarioLineSeqs(3) :
        {p[k] : k \in 1..Len(p)}
          = {E3Line, PythonLine, MachineLearningLine}}}

\* The posting held is one of scenario C.
IsScenarioC ==
  /\ DOMAIN job = {"title", "description", "location"}
  /\ job.title = MachineLearningEngineer
  /\ job.description \in ScenarioCDescriptions
  /\ job.location = NewYorkNY

\* C11 as stated: scenario C ('Machine Learning Engineer' in 'New York, NY'
\* whose description has 'E-3 visa sponsorship available', 'Python' and
\* 'Machine Learning') gives visa_status explicit with a visa sub-score of 80
\* or more, a technical sub-score above 0, a role sub-score of 80 or more
\* and location_flag preferred with multiplier 1.0.
ScenarioCRoleAtLeast80 ==
  (Scored /\ IsScenarioC) =>
    /\ Returned.visa_status = "explicit"
    /\ Locals.scores.visa >= Points(80)
    /\ Locals.scores.technical > 0
    /\ Locals.scores.role >= Points(80)
    /\ Returned.location_flag = "preferred"
    /\ Locals.location_penalty = Mult(100)

\* C11 amended: scenario C gives visa_status explicit with visa sub-score
\* 100, technical sub-score 50 (two skills), location_flag preferred with
\* multiplier 1.0, and role sub-score 60: the only role found is the title's
\* 'machine learning engineer', the description's 'Machine Learning' being
\* no role of the profile, and a role found in the title only scores 60.
ScenarioCRoleIsTitleOnly ==
  (Scored /\ IsScenarioC) =>
    /\ Returned.visa_status = "explicit"
    /\ Locals.scores.visa = Points(100)
    /\ Locals.scores.technical = Points(50)
    /\ Matching(roles, Lower(job.description)) = <<>>
    /\ Returned.matches.role = {Words(<<"machine", "learning", "engineer">>)}
    /\ Locals.scores.role = Points(60)
    /\ Returned.location_flag = "preferred"
    /\ Locals.location_penalty = Mult(100)
    /\ Returned.location_ok

\* Scenario C scored, its description beginning with the E-3 line.
ScenarioCRoleIsTitleOnlyWitness ==
  /\ Scored
  /\ IsScenarioC
  /\ job.description = Join("\n", <<E3Line, PythonLine, MachineLearningLine>>)
  /\ Returned.breakdown.role = 600
  /\ Returned.breakdown.visa = 1000

\* The posting held has no description key, None under it, or ''.
DescriptionMissing ==
  \/ IsNone(job, "description")
  \/ DictGet(job, "description") = <<>>

\* C12 as stated: score_job raises no error for a posting whose description
\* is absent, None or '': its eligibility sub-score is 50 with status
\* no_requirements_found, and 'Software Engineer' at 'Remote' with such a
\* description has visa_status none, location_flag remote with multiplier
\* 1.0 and seniority_flag ok with multiplier 1.0.  The code calls .lower()
\* on a None description.
MissingDescriptionIsEmptyText ==
  (pc \in {"scored", "raised"} /\ DescriptionMissing) =>
    /\ pc = "scored"
    /\ Locals.scores.eligibility = Points(50)
    /\ Returned.matches.eligibility = [status |-> "no_requirements_found"]
    /\ (job.title = SoftwareEngineer /\ job.location = <<"Remote">>) =>
         /\ Returned.visa_status = "none"
         /\ Returned.location_flag = "remote"
         /\ Locals.location_penalty = Mult(100)
         /\ Returned.seniority_flag = "ok"
         /\ Locals.seniority_penalty = Mult(100)

\* C14: scoring a posting twice with the same scorer and the same answer of
\* the provider gives the same result record, fit_score, breakdown,
\* matches, visa_status, location_flag, seniority_flag and reasoning among
\* its entries: whatever postings the scorer scored before, the record is
\* the one the scorer gave when new, and a second call right after the first
\* returns the record again and leaves the weight table as it was.
ScoringTwiceGivesTheSame ==
  /\ [](Scored =>
          \E tie_up \in BOOLEAN :
            score_job(InitialWeights, ai_scorer, job, Locals.provider,
                      tie_up).returned = Returned)
  /\ [][pc' = "rescored" =>
          /\ result'.returned = result.returned
          /\ WEIGHTS' = WEIGHTS]_vars

\* A posting scored a second time, the provider having answered with a
\* similarity, after the scorer had scored other postings.
ScoringTwiceGivesTheSameWitness ==
  /\ pc = "rescored"
  /\ Returned.ai_details.method = "sentence_transformer"
  /\ Returned.reasoning.sentence = "While my ML work at FibreTrace"
  /\ Returned.fit_score > 500

(***************************************************************************)
(* The technical matcher on a growing description                          *)
(*                                                                         *)
(* The description is a body line, the header 'Requirements:' and a line   *)
(* of requirements.  A step writes one more skill of the profile at the    *)
(* end of the body or of the requirements; the matcher is applied to the   *)
(* texts score_job would give it.                                          *)
(***************************************************************************)

SkillTerms ==
  <<"python", "aws", "sql", "docker", "react", "swift", "pytorch",
    "tensorflow", "nlp", "llm", "graphql", "rust", "java">>

\* The most skills a description of this specification has.
MaxSkillTerms == 11

\* The line with one more word at its end.
AppendWord(line, word) ==
  IF line = <<>> THEN <<word>> ELSE line \o <<" ", word>>

\* The number of skill terms the description has.
TermCount(description) ==
  Cardinality({n \in 1..Len(description) :
                 \E k \in 1..Len(SkillTerms) : description[n] = SkillTerms[k]})

\* _score_technical as score_job calls it for a posting.
TechnicalOf(job_data) ==
  LET title == Lower(DictGet(job_data, "title"))
      description == Lower(DictGet(job_data, "description"))
  IN  score_technical(Combine(title, description),
                      extract_eligibility_sections(description))

\* The matches of a text that the requirements section has too.
EligibilityMatchCount(job_data) ==
  LET text == extract_eligibility_sections(Lower(job_data.description))
  IN  IF text = <<>> THEN 0 ELSE Len(Matching(all_skills, text))

TechnicalInit ==
  /\ WEIGHTS = InitialWeights
  /\ ai_scorer = "none"
  /\ pc = "technical"
  /\ job = [title |-> <<>>,
            description |-> Join("\n", <<<<>>, HeaderLine, <<>>>>),
            location |-> <<>>]
  /\ result = [returned |-> TechnicalOf(job)]
  /\ calls = <<>>
  /\ applicator = NoApplicator
  /\ db = <<>>
  /\ outbox = {}
  /\ ai_scorer_instance = NoInstance

\* One more skill, the next of the terms, at the end of the line, and the
\* matcher applied to the new posting.
AddSkill(line) ==
  /\ pc = "technical"
  /\ TermCount(job.description) < MaxSkillTerms
  /\ LET lines == SplitLines(job.description)
         term == SkillTerms[TermCount(job.description) + 1]
         longer == [lines EXCEPT ![line] = AppendWord(lines[line], term)]
         posting == [job EXCEPT !.description = Join("\n", longer)]
     IN  /\ job' = posting
         /\ result' = [returned |-> TechnicalOf(posting)]
  /\ UNCHANGED <<WEIGHTS, ai_scorer, pc, other_objects>>

TechnicalNext == \E line \in {1, 3} : AddSkill(line)

TechnicalSpec == TechnicalInit /\ [][TechnicalNext]_vars

\* C13: one more matching skill in the description never lowers the
\* technical sub-score: the step takes the number of matches n to n + 1 and
\* the number e of them in the requirements section to e or e + 1, with
\* e <= n, and the sub-score after it is at least the sub-score before.
TechnicalNeverDecreases ==
  [][LET n == Len(result.returned.matches)
         e == EligibilityMatchCount(job)
     IN  /\ Len(result'.returned.matches) = n + 1
         /\ EligibilityMatchCount(job') \in {e, e + 1}
         /\ EligibilityMatchCount(job') <= n + 1
         /\ result'.returned.score >= result.returned.score]_vars

\* Three matches, fewer than three of them in the requirements: the score
\* is the 50 that two matches had.
TechnicalNeverDecreasesWitness ==
  /\ pc = "technical"
  /\ Len(result.returned.matches) = 3
  /\ EligibilityMatchCount(job) = 2
  /\ result.returned.score = Points(50)


\* C27: the technical sub-score is a function of n, the number of distinct
\* skills of the profile matched in the requirements or in the general
\* text, and e, the number matched in the requirements: the base is 0 for
\* n = 0, 30 + 10n for n of 1 or 2, 50 + 10(n - 3) for n in 3..5,
\* 80 + 5(n - 6) for n in 6..9 and 100 from 10 on, and the score is
\* min(100, base + 10) if e >= 3 and the base if not.  A skill of the
\* requirements counts for n and for e, once each.
TechnicalIsAFunctionOfCounts ==
  pc = "technical" =>
    LET title == Lower(job.title)
        description == Lower(job.description)
        text == Combine(title, description)
        eligibility_text == extract_eligibility_sections(description)
        in_eligibility ==
          {skill \in ListSet(all_skills) : WordSearch(skill, eligibility_text)}
        in_text == {skill \in ListSet(all_skills) : WordSearch(skill, text)}
        n == Cardinality(in_eligibility \cup in_text)
        e == Cardinality(in_eligibility)
        base == IF n = 0 THEN 0
                ELSE IF n <= 2 THEN 30 + 10 * n
                ELSE IF n <= 5 THEN 50 + 10 * (n - 3)
                ELSE IF n <= 9 THEN 80 + 5 * (n - 6)
                ELSE 100
    IN  /\ Len(Returned.matches) = n
        /\ Returned.score =
             Points(IF e >= 3 /\ base + 10 <= 100 THEN base + 10
                    ELSE IF e >= 3 THEN 100 ELSE base)

\* Seven skills, three of them in the requirements: 80 + 5 + 10.
TechnicalIsAFunctionOfCountsWitness ==
  /\ pc = "technical"
  /\ Len(Returned.matches) = 7
  /\ EligibilityMatchCount(job) = 3
  /\ Returned.score = Points(95)

(***************************************************************************)
(* The call of the provider as a step of its own                           *)
(*                                                                         *)
(* score_job_ai calls self.model.encode and goes on when the call returns. *)
(* There is no time limit on the call in score_job_ai nor in score_job.    *)
(***************************************************************************)

\* score_job reaches self.model.encode for this posting.
ProviderCalled(scorer, job_data) ==
  /\ ~LowerRaises(job_data)
  /\ scorer = "loaded"
  /\ AiActive(scorer, Lower(DictGet(job_data, "description")))

\* A call that does not reach the provider's model runs to its end.
ScoreJobWithoutModel ==
  /\ ~ProviderCalled(ai_scorer, job)
  /\ ScoreJob

\* job_embedding = self.model.encode(job_text, convert_to_tensor=False)
CallEncode ==
  /\ pc = "fetched"
  /\ ProviderCalled(ai_scorer, job)
  /\ pc' = "encoding"
  /\ UNCHANGED <<WEIGHTS, ai_scorer, job, result, other_objects>>

\* encode returns an embedding or raises, and score_job runs to its end.
EncodeReturns ==
  /\ pc = "encoding"
  /\ \E r \in ScoreOutcomes(WEIGHTS, ai_scorer, job) :
       /\ result' = [returned |-> r.returned, locals |-> r.locals]
       /\ WEIGHTS' = r.table
  /\ pc' = "scored"
  /\ UNCHANGED <<ai_scorer, job, other_objects>>

\* encode never returns: the call of score_job waits in it.
EncodeHangs ==
  /\ pc = "encoding"
  /\ pc' = "hung"
  /\ UNCHANGED <<WEIGHTS, ai_scorer, job, result, other_objects>>

\* Postings with a description of at most one line, some of the lines
\* longer than 50 characters.
ProviderJobs ==
  [title : Titles, description : {Join("\n", ls) : ls \in LineSeqs(1)},
   location : {<<>>, NewYorkNY}]

ProviderNext ==
  \/ \E job_data \in ProviderJobs : FetchJob(job_data)
  \/ ScoreJobWithoutModel
  \/ CallEncode
  \/ EncodeReturns
  \/ EncodeHangs
  \/ NextJob

\* The loop is one thread: a step that can be taken is taken.
ProviderSpec == Init /\ [][ProviderNext]_vars /\ WF_vars(ProviderNext)

\* C15 as stated: a call of score_job whose provider call does not return
\* still returns in the end, with a result computed without the semantic
\* component on the renormalized weights; so in every state in which the
\* call waits for a provider that will not answer, a step is possible.  The
\* code waits in encode without a time limit.
HungProviderCallStillReturns == pc = "hung" => ENABLED ProviderNext

(***************************************************************************)
(* Concurrent calls of score_job on one scorer                             *)
(*                                                                         *)
(* Each thread makes one call.  A call is taken in the steps at which it   *)
(* reads what the calls share: the posting, the provider, the class table  *)
(* (copied with dict(self.WEIGHTS)) and the keyword lists.                 *)
(***************************************************************************)

\* The most threads that call score_job at once.
MaxThreads == 2

Threads == 1..MaxThreads

IdleCall == [pc |-> "idle"]

\* Two postings in New York: one too short for the provider, one not.
ConcurrentJobs ==
  [title : {MachineLearningEngineer}, description : {E3Line, NoSponsorshipLine},
   location : {NewYorkNY}]

ConcurrentInit ==
  /\ WEIGHTS = InitialWeights
  /\ ai_scorer \in {"none", "unloaded", "loaded"}
  /\ pc = "idle"
  /\ job = NoJob
  /\ result = [returned |-> NoResult]
  /\ calls = [t \in Threads |-> IdleCall]
  /\ applicator = NoApplicator
  /\ db = <<>>
  /\ outbox = {}
  /\ ai_scorer_instance = NoInstance

\* Another thread is inside score_job (overlapped records it at the entry of
\* a call).
OthersInFlight(t) ==
  \E u \in Threads \ {t} : calls[u].pc \in {"lowered", "asked", "weighted"}

\* score_job(job_data) is entered: title, description and location are read
\* and lowered, the eligibility sections extracted.
BeginCall(t, job_data) ==
  /\ calls[t].pc = "idle"
  /\ calls' = [calls EXCEPT ![t] =
                 [pc |-> "lowered", job |-> job_data,
                  overlapped |-> OthersInFlight(t)]]
  /\ UNCHANGED <<WEIGHTS, ai_scorer, pc, job, result, applicator, db, outbox,
               ai_scorer_instance>>

\* ai_active is computed and, if it holds, the provider is asked.
AskProvider(t) ==
  /\ calls[t].pc = "lowered"
  /\ \E answer \in AnswersFor(ai_scorer, calls[t].job) :
       calls' = [calls EXCEPT ![t] =
                   [pc |-> "asked", job |-> calls[t].job, answer |-> answer,
                    overlapped |-> calls[t].overlapped]]
  /\ UNCHANGED <<WEIGHTS, ai_scorer, pc, job, result, applicator, db, outbox,
               ai_scorer_instance>>

\* weights = dict(self.WEIGHTS), and the adjustment of the weights.
CopyWeights(t) ==
  /\ calls[t].pc = "asked"
  /\ LET ai_active ==
           AiActive(ai_scorer, Lower(DictGet(calls[t].job, "description")))
     IN  /\ calls' = [calls EXCEPT ![t] =
                        [pc |-> "weighted", job |-> calls[t].job,
                         answer |-> calls[t].answer, table |-> WEIGHTS,
                         overlapped |-> calls[t].overlapped]]
         /\ WEIGHTS' = AdjustWeights(WEIGHTS, ai_active).table
  /\ UNCHANGED <<ai_scorer, pc, job, result, applicator, db, outbox,
               ai_scorer_instance>>

\* The matchers and gates run, the total is taken with the weights of the
\* call and the result is returned.
ReturnResult(t) ==
  /\ calls[t].pc = "weighted"
  /\ LET parts == score_components(calls[t].job)
     IN  \E tie_up \in BOOLEAN :
           calls' = [calls EXCEPT ![t] =
                       [pc |-> "returned", job |-> calls[t].job,
                        answer |-> calls[t].answer,
                        overlapped |-> calls[t].overlapped,
                        returned |->
                          score_job_with(calls[t].table, ai_scorer,
                                         calls[t].job, parts, calls[t].answer,
                                         tie_up).returned]]
  /\ UNCHANGED <<WEIGHTS, ai_scorer, pc, job, result, applicator, db, outbox,
               ai_scorer_instance>>

ConcurrentNext ==
  \E t \in Threads :
    \/ \E job_data \in ConcurrentJobs : BeginCall(t, job_data)
    \/ AskProvider(t)
    \/ CopyWeights(t)
    \/ ReturnResult(t)

ConcurrentSpec == ConcurrentInit /\ [][ConcurrentNext]_vars

\* C16: score_job writes nothing the calls share, so however the steps of
\* concurrent calls on one scorer interleave, the class table stays as the
\* class body set it and every call returns the result it returns when run
\* alone on a new scorer with the same answer of the provider.
ConcurrentCallsReturnAsAlone ==
  /\ WEIGHTS = InitialWeights
  /\ \A t \in Threads :
       calls[t].pc = "returned" =>
         \E tie_up \in BOOLEAN :
           score_job(InitialWeights, ai_scorer, calls[t].job, calls[t].answer,
                     tie_up).returned = calls[t].returned

\* Two calls have returned, the second entered while the first was in
\* flight: one for the short posting, its weights renormalized, one for the
\* long posting with the provider's similarity.
ConcurrentCallsReturnAsAloneWitness ==
  /\ \A t \in Threads : calls[t].pc = "returned"
  /\ calls[2].overlapped
  /\ calls[1].job.description = E3Line
  /\ calls[1].returned.ai_details.method = "not_available"
  /\ calls[2].job.description = NoSponsorshipLine
  /\ calls[2].returned.ai_details.method = "sentence_transformer"

(***************************************************************************)
(* Properties of the visa classifier and the location assessor             *)
(***************************************************************************)

\* f"{title} {description}" of the posting held, as score_job builds it.
HeldText ==
  Combine(Lower(DictGet(job, "title")), Lower(DictGet(job, "description")))

\* The visa sub-score, status and keyword list of the result held.
VisaResult ==
  [score |-> Locals.scores.visa, status |-> Returned.visa_status,
   keywords |-> Returned.matches.visa_keywords]

HasE3(keywords) ==
  \E n \in 1..Len(keywords) : AnySubstring(E3Markers, keywords[n])

\* C17: the (status, score) pair of the visa classifier is one of
\* (excluded, 0), (explicit, 100), (explicit, 80), (none, 50).  Without a
\* hard-negative keyword, a positive keyword gives explicit, with 100 if an
\* E-3 keyword is among the positives found and 80 if not; else an ambiguous
\* keyword gives none with 50; else none with 50 and no keywords.  The list
\* returned is the one that decided: the hard negatives, the positives, the
\* ambiguous ones, or the empty list.
VisaDecidesInOrder ==
  Scored =>
    LET text == HeldText
        positives == Matching(visa_positive, text)
        negatives == Matching(visa_negative, text)
        hard == SelectSeq(negatives, LAMBDA kw : ~IsAmbiguousNegative(kw))
        ambiguous == SelectSeq(negatives, IsAmbiguousNegative)
        visa == VisaResult
    IN  /\ <<visa.status, visa.score>> \in
             {<<"excluded", 0>>, <<"explicit", Points(100)>>,
              <<"explicit", Points(80)>>, <<"none", Points(50)>>}
        /\ Returned.breakdown.visa = Round1(visa.score)
        /\ hard # <<>> => visa.keywords = hard
        /\ (hard = <<>> /\ positives # <<>>) =>
             /\ visa.status = "explicit"
             /\ visa.score = IF HasE3(positives) THEN Points(100) ELSE Points(80)
             /\ visa.keywords = positives
        /\ (hard = <<>> /\ positives = <<>> /\ ambiguous # <<>>) =>
             /\ visa.status = "none"
             /\ visa.score = Points(50)
             /\ visa.keywords = ambiguous
        /\ (hard = <<>> /\ positives = <<>> /\ ambiguous = <<>>) =>
             /\ visa.status = "none"
             /\ visa.score = Points(50)
             /\ visa.keywords = <<>>

\* A posting without a hard negative that has a positive keyword, none of
\* them an E-3 keyword, and an ambiguous keyword too: explicit with 80, the
\* positives returned.
VisaDecidesInOrderWitness ==
  /\ Scored
  /\ ~AnyMatching(HardNegatives, HeldText)
  /\ AnyMatching(AmbiguousNegatives, HeldText)
  /\ VisaResult.status = "explicit"
  /\ VisaResult.score = Points(80)
  /\ VisaResult.keywords # <<>>

\* What the location assessor gave for the posting held.
LocationResult ==
  <<Returned.location_ok, Locals.location_penalty, Returned.location_flag>>

MIN_FIT_SCORE == 500

\* min_fit_score as the constructor is given it: left out (None) or a
\* number.
MinFitScoreArguments ==
  {[given |-> FALSE, value |-> 0]}
    \cup [given : {TRUE}, value : {0, 500, 600, 750}]

\* The results of score_job that should_apply is given: the fields it reads.
ScoreResults ==
  [fit_score : {0, 499, 500, 599, 600, 699, 700, 749, 750, 1000},
   visa_status : {"explicit", "none", "excluded"},
   seniority_ok : BOOLEAN,
   location_ok : BOOLEAN]

ApplicatorInit ==
  /\ WEIGHTS = InitialWeights
  /\ ai_scorer \in {"none", "unloaded", "loaded"}
  /\ pc = "idle"
  /\ job = NoJob
  /\ result = [returned |-> NoResult]
  /\ calls = <<>>
  /\ applicator = NoApplicator
  /\ db = <<>>
  /\ outbox = {}
  /\ ai_scorer_instance = NoInstance

\* An applicator has been made: its minimum is never 0 then.
ApplicatorMade == applicator.min_fit_score # 0

\* JobApplicator(min_fit_score):
\* self.min_fit_score = min_fit_score or self.MIN_FIT_SCORE
MakeApplicator(min_fit_score) ==
  /\ ~ApplicatorMade
  /\ applicator' =
       [min_fit_score |->
          IF min_fit_score.given /\ min_fit_score.value # 0
            THEN min_fit_score.value ELSE MIN_FIT_SCORE]
  /\ UNCHANGED <<WEIGHTS, ai_scorer, pc, job, result, calls, db, outbox,
               ai_scorer_instance>>

\* A posting has been scored.
TakeResult(score_result) ==
  /\ ApplicatorMade
  /\ pc = "idle"
  /\ pc' = "scored"
  /\ result' = [returned |-> score_result]
  /\ UNCHANGED <<WEIGHTS, ai_scorer, job, other_objects>>

\* As should_apply with the visa check the other way round.
should_apply_unless_explicit(min_fit_score, score_result) ==
  LET fit_score == score_result.fit_score
  IN  IF fit_score < min_fit_score THEN FALSE
      ELSE IF score_result.visa_status # "explicit" THEN FALSE
      ELSE IF ~score_result.seniority_ok THEN FALSE
      ELSE IF ~score_result.location_ok /\ fit_score < 700 THEN FALSE
      ELSE TRUE

should_apply(min_fit_score, score_result) ==
  LET fit_score == score_result.fit_score
  IN  IF fit_score < min_fit_score THEN FALSE
      ELSE IF score_result.visa_status = "excluded" THEN FALSE
      ELSE IF ~score_result.seniority_ok THEN FALSE
      ELSE IF ~score_result.location_ok /\ fit_score < 700 THEN FALSE
      ELSE TRUE

\* self.should_apply(job_data, score_result)
ShouldApply ==
  /\ pc = "scored"
  /\ pc' = "decided"
  /\ applicator' =
       [min_fit_score |-> applicator.min_fit_score,
        should_apply |-> should_apply(applicator.min_fit_score, Returned)]
  /\ UNCHANGED <<WEIGHTS, ai_scorer, job, result, calls, db, outbox,
               ai_scorer_instance>>

\* The next posting.
NextResult ==
  /\ pc = "decided"
  /\ pc' = "idle"
  /\ result' = [returned |-> NoResult]
  /\ applicator' = [min_fit_score |-> applicator.min_fit_score]
  /\ UNCHANGED <<WEIGHTS, ai_scorer, job, calls, db, outbox,
               ai_scorer_instance>>

ApplicatorNext ==
  \/ \E min_fit_score \in MinFitScoreArguments : MakeApplicator(min_fit_score)
  \/ \E score_result \in ScoreResults : TakeResult(score_result)
  \/ ShouldApply
  \/ NextResult

ApplicatorSpec == ApplicatorInit /\ [][ApplicatorNext]_vars

\* should_apply has returned for the result held.
Decided == pc = "decided"

Urls ==
  {<<"j", "o", "b">>, <<"j", "o", "b", "2">>, <<"j", "o", "b", "?", "x">>,
   <<"j", "o", "_">>, <<"J", "O", "B">>, <<"p">>, <<>>}

\* The most rows the jobs table gets.
MaxRows == 2

\* LIKE of SQLite takes the ASCII letters without regard to case.
FoldCase(char) ==
  IF char = "J" THEN "j" ELSE IF char = "O" THEN "o"
  ELSE IF char = "B" THEN "b" ELSE char

\* text LIKE pattern: % stands for any characters, _ for any one.
RECURSIVE Like(_, _)
Like(text, pattern) ==
  IF pattern = <<>> THEN text = <<>>
  ELSE IF Head(pattern) = "%"
    THEN \E k \in 0..Len(text) :
           Like(SubSeq(text, k + 1, Len(text)), Tail(pattern))
  ELSE /\ text # <<>>
       /\ \/ Head(pattern) = "_"
          \/ FoldCase(Head(pattern)) = FoldCase(Head(text))
       /\ Like(Tail(text), Tail(pattern))

\* url.split('?')[0]
RECURSIVE BeforeQuery(_)
BeforeQuery(url) ==
  IF url = <<>> \/ Head(url) = "?" THEN <<>>
  ELSE <<Head(url)>> \o BeforeQuery(Tail(url))

\* job_exists(url=url) on the rows given; no source_id is passed.
job_exists(rows, url) ==
  IF url # <<>>
    THEN LET base_url == BeforeQuery(url)
         IN  \E n \in 1..Len(rows) : Like(rows[n].url, base_url \o <<"%">>)
    ELSE FALSE

\* A job with this URL is stored.
Stored(rows, url) == \E n \in 1..Len(rows) : rows[n].url = url

DatabaseInit ==
  /\ WEIGHTS = InitialWeights
  /\ ai_scorer \in {"none", "unloaded", "loaded"}
  /\ pc = "idle"
  /\ job = NoJob
  /\ result = [returned |-> NoResult]
  /\ calls = <<>>
  /\ applicator = NoApplicator
  /\ db = <<>>
  /\ outbox = {}
  /\ ai_scorer_instance = NoInstance

\* add_job(job_data): the row is inserted and committed; a URL that a row
\* has already breaks the unique constraint of the column, the session is
\* rolled back and the error raised again.
AddJob(url) ==
  /\ Len(db) < MaxRows
  /\ IF Stored(db, url)
       THEN /\ result' = [returned |-> NoResult, raised |-> "IntegrityError"]
            /\ UNCHANGED db
       ELSE /\ db' = Append(db, [url |-> url])
            /\ result' = [returned |-> [id |-> Len(db) + 1, url |-> url]]
  /\ pc' = "added"
  /\ UNCHANGED <<WEIGHTS, ai_scorer, job, calls, applicator, outbox,
               ai_scorer_instance>>

\* exists = job_exists(url)
JobExists(url) ==
  /\ result' = [returned |-> [url |-> url, exists |-> job_exists(db, url)]]
  /\ pc' = "asked"
  /\ UNCHANGED <<WEIGHTS, ai_scorer, job, other_objects>>

DatabaseNext ==
  \/ \E url \in Urls : AddJob(url)
  \/ \E url \in Urls : JobExists(url)

DatabaseSpec == DatabaseInit /\ [][DatabaseNext]_vars

\* job_exists has returned for the URL in the result held.
Asked == pc = "asked"

\* C20 as stated: after any sequence of add_job calls, job_exists(url=u) is
\* True if a job with URL u was added and False for every URL u that differs
\* from the URL of every stored job.  The code matches the stored URLs
\* against the prefix of u before its first '?' with LIKE, so 'job' exists
\* once 'job2' is stored; and it answers False for the empty URL.
DuplicateDetectionIsExact ==
  Asked =>
    /\ Stored(db, Returned.url) => Returned.exists = TRUE
    /\ ~Stored(db, Returned.url) => Returned.exists = FALSE

(***************************************************************************)
(* Database.get_jobs_to_alert, Database.mark_alerted,                      *)
(* AlertManager.send_alerts                                                *)
(*                                                                         *)
(* A row of the jobs table is kept as its fit_score (in points) and its    *)
(* alerted_at column; its id is its place in db.                           *)
(***************************************************************************)

FitScores == {45, 50, 70}

\* config['thresholds']
Thresholds == [immediate |-> 70, digest |-> 50]

\* The ids of the rows.
JobIds(rows) == 1..Len(rows)

\* The rows with fit_score >= threshold and alerted_at NULL.
ToAlert(rows, threshold) ==
  {id \in JobIds(rows) :
     rows[id].fit_score >= threshold /\ rows[id].alerted_at = "None"}

\* The orders of the ids with fit_score descending; rows of equal fit_score
\* come in an order the query does not fix.
DescendingOrders(rows, ids) ==
  {order \in [1..Cardinality(ids) -> ids] :
     /\ \A i, j \in DOMAIN order : i # j => order[i] # order[j]
     /\ \A i, j \in DOMAIN order :
          i < j => rows[order[i]].fit_score >= rows[order[j]].fit_score}

\* get_jobs_to_alert(threshold): the lists the query may give.
get_jobs_to_alert(rows, threshold) ==
  DescendingOrders(rows, ToAlert(rows, threshold))

\* mark_alerted(job_id): the row, if there is one, gets alerted_at.
mark_alerted(rows, job_id) ==
  IF job_id \in JobIds(rows)
    THEN [rows EXCEPT ![job_id].alerted_at = "utcnow"]
    ELSE rows

\* The jobs an alert was sent for or that were marked alerted.
AlertedJobs ==
  {message.job_id : message \in outbox}
    \cup {id \in JobIds(db) : db[id].alerted_at # "None"}

\* add_job of a scored posting.
SaveJob(fit_score) ==
  /\ Len(db) < MaxRows
  /\ db' = Append(db, [fit_score |-> fit_score, alerted_at |-> "None"])
  /\ result' = [returned |-> [id |-> Len(db) + 1]]
  /\ pc' = "added"
  /\ UNCHANGED <<WEIGHTS, ai_scorer, job, calls, applicator, outbox,
                 ai_scorer_instance>>

GetJobsToAlert(threshold) ==
  /\ \E jobs \in get_jobs_to_alert(db, threshold) :
       result' = [returned |-> jobs, threshold |-> threshold,
                  selected |-> {jobs[n] : n \in DOMAIN jobs},
                  alerted_before |-> AlertedJobs]
  /\ pc' = "listed"
  /\ UNCHANGED <<WEIGHTS, ai_scorer, job, other_objects>>

MarkAlerted(job_id) ==
  /\ db' = mark_alerted(db, job_id)
  /\ result' = [returned |-> NoResult]
  /\ pc' = "marked"
  /\ UNCHANGED <<WEIGHTS, ai_scorer, job, calls, applicator, outbox,
                 ai_scorer_instance>>

\* send_alerts(jobs, thresholds) for stored jobs; email says what became of
\* the mails to ALERT_EMAIL ("unset" if there is no recipient), sms of the
\* messages to ALERT_SMS ("off" if there is no recipient or SMS is disabled).
SendAlerts(jobs, email, sms) ==
  /\ jobs # {}
  /\ LET unalerted_jobs == {id \in jobs : db[id].alerted_at = "None"}
         immediate_jobs ==
           {id \in unalerted_jobs : db[id].fit_score >= Thresholds.immediate}
         digest_jobs ==
           {id \in unalerted_jobs :
              /\ Thresholds.digest <= db[id].fit_score
              /\ db[id].fit_score < Thresholds.immediate}
         alerted_job_ids ==
           IF email = "sent" THEN immediate_jobs \cup digest_jobs ELSE {}
         delivered ==
           (IF email = "sent"
              THEN [job_id : immediate_jobs, channel : {"email"}]
                     \cup [job_id : digest_jobs, channel : {"digest"}]
              ELSE {})
             \cup (IF sms = "sent"
                     THEN [job_id : immediate_jobs, channel : {"sms"}]
                     ELSE {})
     IN  /\ outbox' = outbox \cup delivered
         /\ db' = [id \in JobIds(db) |->
                     IF id \in alerted_job_ids
                       THEN [db[id] EXCEPT !.alerted_at = "utcnow"]
                       ELSE db[id]]
         /\ result' =
              [returned |->
                 [immediate |->
                    IF email = "sent" THEN Cardinality(immediate_jobs) ELSE 0,
                  digest |->
                    IF email = "sent" THEN Cardinality(digest_jobs) ELSE 0,
                  skipped |->
                    Cardinality(jobs) - Cardinality(immediate_jobs)
                      - Cardinality(digest_jobs)],
               selected |-> immediate_jobs \cup digest_jobs,
               alerted_before |-> AlertedJobs]
  /\ pc' = "sent"
  /\ UNCHANGED <<WEIGHTS, ai_scorer, job, calls, applicator,
                 ai_scorer_instance>>

AlertNext ==
  \/ \E fit_score \in FitScores : SaveJob(fit_score)
  \/ \E threshold \in {Thresholds.digest, Thresholds.immediate} :
       GetJobsToAlert(threshold)
  \/ \E job_id \in 1..MaxRows : MarkAlerted(job_id)
  \/ \E jobs \in SUBSET JobIds(db), email \in {"unset", "sent", "failed"},
          sms \in {"off", "sent", "failed"} : SendAlerts(jobs, email, sms)

AlertSpec == DatabaseInit /\ [][AlertNext]_vars

\* get_jobs_to_alert returned the list held.
Listed == pc = "listed"

\* The list held is exactly the stored jobs with fit_score >= threshold and
\* alerted_at unset, fit_score descending.
ListIsTheUnalertedDescending ==
  Listed =>
    /\ result.selected = ToAlert(db, result.threshold)
    /\ Len(Returned) = Cardinality(result.selected)
    /\ \A i \in 1..(Len(Returned) - 1) :
         db[Returned[i]].fit_score >= db[Returned[i + 1]].fit_score

\* C21 as stated: get_jobs_to_alert(threshold) returns exactly the stored
\* jobs with fit_score >= threshold and alerted_at unset, fit_score
\* descending, and once an alert was sent for a job (mark_alerted, or a
\* successful send in send_alerts) no later get_jobs_to_alert or send_alerts
\* call selects the job again.  send_alerts records a job as alerted only
\* when the mail was sent: a job whose alert went out by SMS alone stays
\* unalerted and is selected, and sent, again.
AlertedJobsAreNotSelectedAgain ==
  /\ ListIsTheUnalertedDescending
  /\ pc \in {"listed", "sent"} => result.selected \cap result.alerted_before = {}

(***************************************************************************)
(* JobScorer._extract_eligibility_sections on descriptions built line by   *)
(* line                                                                    *)
(***************************************************************************)

BenefitsLine == <<"Benefits">>

\* A line with a header phrase and a stop phrase.
RequirementsAndBenefitsLine == Words(<<"Requirements", "and", "benefits">>)

\* A header, a plain line, an empty line, a line of one space, a stop line,
\* and a line that has a header phrase and a stop phrase.
ExtractorLinePool ==
  {HeaderLine, PythonLine, <<>>, <<" ">>, BenefitsLine,
   RequirementsAndBenefitsLine}

\* The most lines a description gets.
MaxDescriptionLines == 4

ExtractorInit ==
  /\ WEIGHTS = InitialWeights
  /\ ai_scorer = "none"
  /\ pc = "idle"
  /\ job = NoJob
  /\ result = [returned |-> <<>>]
  /\ calls = <<>>
  /\ applicator = NoApplicator
  /\ db = <<>>
  /\ outbox = {}
  /\ ai_scorer_instance = NoInstance

\* The lines of the description held: none before the first line is there.
DescriptionLines == IF pc = "idle" THEN <<>> ELSE SplitLines(job.description)

\* The description gets one more line and the extractor is applied to it.
AppendLine(line) ==
  /\ Len(DescriptionLines) < MaxDescriptionLines
  /\ LET description ==
           IF pc = "idle" THEN line ELSE job.description \o <<"\n">> \o line
     IN  /\ job' = [job EXCEPT !.description = description]
         /\ result' = [returned |-> extract_eligibility_sections(description)]
  /\ pc' = "extracted"
  /\ UNCHANGED <<WEIGHTS, ai_scorer, other_objects>>

ExtractorNext == \E line \in ExtractorLinePool : AppendLine(line)

ExtractorSpec == ExtractorInit /\ [][ExtractorNext]_vars

\* The extractor has returned for the description held.
Extracted == pc = "extracted"

\* The lines the extractor appends for the first n lines of the description.
CapturedOf(lines, n) == CaptureFrom(SubSeq(lines, 1, n), 1, FALSE)

\* Line i is appended: the extractor appends one line more for the first i
\* lines than for the first i - 1.
Appended(lines, i) == Len(CapturedOf(lines, i)) = Len(CapturedOf(lines, i - 1)) + 1

\* The lines at the places given, in their order.
LinesAt(lines, places) ==
  LET kept == SelectSeq([i \in 1..Len(lines) |-> i], LAMBDA i : i \in places)
  IN  [n \in 1..Len(kept) |-> lines[kept[n]]]

\* C22: the extractor returns the empty string if and only if no line of
\* the description contains a header phrase; otherwise it returns the
\* captured lines in their order in the description, joined by one space.
EmptyIffNoHeader ==
  Extracted =>
    LET lines == DescriptionLines
        captured == {i \in 1..Len(lines) : Appended(lines, i)}
    IN  /\ Returned = <<>> <=> ~\E i \in 1..Len(lines) : IsHeaderLine(lines[i])
        /\ Returned = Join(" ", LinesAt(lines, captured))

\* A description with a header whose captured lines are the header and the
\* line after a single blank line, a stop line and what follows left out.
EmptyIffNoHeaderWitness ==
  /\ Extracted
  /\ DescriptionLines = <<HeaderLine, <<>>, PythonLine, BenefitsLine>>
  /\ Returned = HeaderLine \o <<" ">> \o PythonLine

\* Capture is on when line i is read, by the claim's rule: a header line
\* before it, and since then no stop-phrase line and no blank line followed
\* at once by another blank line.  Header lines are themselves taken for
\* stop-phrase lines if they have a stop phrase (as C23 is stated) or are
\* not (headers_first).
CaptureReaches(lines, i, headers_first) ==
  \E h \in 1..(i - 1) :
    /\ IsHeaderLine(lines[h])
    /\ \A k \in (h + 1)..(i - 1) :
         (headers_first /\ IsHeaderLine(lines[k]))
           \/ ~(\/ IsStopLine(lines[k])
                \/ IsBlankLine(lines[k]) /\ IsBlankLine(lines[k + 1]))

\* C23 as stated: stop-phrase lines and blank lines are never part of the
\* output, and a line without a header phrase is appended exactly when it is
\* neither, a header line precedes it and no stop-phrase line and no blank
\* line followed at once by a blank line lies between.  A line with a header
\* phrase and a stop phrase is appended and keeps capture on.
StopAndBlankLinesEndCapture ==
  Extracted =>
    LET lines == DescriptionLines
    IN  \A i \in 1..Len(lines) :
          /\ (IsStopLine(lines[i]) \/ IsBlankLine(lines[i])) =>
               ~Appended(lines, i)
          /\ ~IsHeaderLine(lines[i]) =>
               (Appended(lines, i) <=>
                  /\ ~IsStopLine(lines[i])
                  /\ ~IsBlankLine(lines[i])
                  /\ CaptureReaches(lines, i, FALSE))

\* C23 amended: of the lines without a header phrase, stop-phrase lines and
\* blank lines are never part of the output, and such a line is appended
\* exactly when it is neither, a header line precedes it and, between the
\* two, there is no stop-phrase line without a header phrase and no blank
\* line followed at once by a blank line.  So a single blank line followed
\* by a non-blank line does not end capture, and after capture has ended
\* nothing is appended until the next header line.
StopAndBlankLinesEndCaptureUnlessHeader ==
  Extracted =>
    LET lines == DescriptionLines
    IN  \A i \in 1..Len(lines) :
          ~IsHeaderLine(lines[i]) =>
            /\ (IsStopLine(lines[i]) \/ IsBlankLine(lines[i])) =>
                 ~Appended(lines, i)
            /\ Appended(lines, i) <=>
                 /\ ~IsStopLine(lines[i])
                 /\ ~IsBlankLine(lines[i])
                 /\ CaptureReaches(lines, i, TRUE)

\* Header, a line of one space, an empty line, a plain line: capture ends
\* at the two blank lines and the plain line is not appended.
StopAndBlankLinesEndCaptureUnlessHeaderWitness ==
  /\ Extracted
  /\ DescriptionLines = <<HeaderLine, <<" ">>, <<>>, PythonLine>>
  /\ Returned = HeaderLine

\* The number of lines equal to line among the lines.
Occurrences(lines, line) == Cardinality({i \in 1..Len(lines) : lines[i] = line})

\* C24: every line with a header phrase is appended, whatever the capture
\* mode before it and also when it has a stop phrase too, and leaves capture
\* on: a line after it that is neither blank nor a stop-phrase line is
\* appended.  Each occurrence of a header line is appended again.
HeaderLinesAlwaysCaptured ==
  Extracted =>
    LET lines == DescriptionLines
    IN  /\ \A i \in 1..Len(lines) :
             IsHeaderLine(lines[i]) =>
               /\ Appended(lines, i)
               /\ (/\ i < Len(lines)
                   /\ ~IsBlankLine(lines[i + 1])
                   /\ ~IsStopLine(lines[i + 1])) => Appended(lines, i + 1)
        /\ \A line \in {HeaderLine, RequirementsAndBenefitsLine} :
             Occurrences(CapturedOf(lines, Len(lines)), line)
               = Occurrences(lines, line)

\* While capturing, a line with a header phrase and a stop phrase, then a
\* plain line and the header again: all four lines are in the output.
HeaderLinesAlwaysCapturedWitness ==
  /\ Extracted
  /\ DescriptionLines =
       <<HeaderLine, RequirementsAndBenefitsLine, PythonLine, HeaderLine>>
  /\ Returned = Join(" ", DescriptionLines)

(***************************************************************************)
(* JobScorer._score_eligibility on requirements sections built line by     *)
(* line                                                                    *)
(***************************************************************************)

SixPlusYears == <<"6", "+", " ", "years">>

SixToEightYears == <<"6", "-", "8", " ", "years">>

ThreeYears == <<"3", " ", "years">>

TwoToFiveYears == <<"2", "-", "5", " ", "years">>

\* The lines a requirements section is made of: year mentions at or above
\* the exclusion threshold, year mentions within the accepted window, and
\* skills of the profile.
RequirementLinePool ==
  {SixPlusYears, SixToEightYears, ThreeYears, TwoToFiveYears,
   <<"python">>, <<"aws">>, <<"sql">>}

\* The most lines a requirements section gets.
MaxRequirementLines == 4

\* _score_eligibility as score_job calls it for a description.
EligibilityOf(description) ==
  score_eligibility(extract_eligibility_sections(Lower(description)))

EligibilityInit ==
  /\ WEIGHTS = InitialWeights
  /\ ai_scorer = "none"
  /\ pc = "idle"
  /\ job = NoJob
  /\ result = [returned |-> NoResult]
  /\ calls = <<>>
  /\ applicator = NoApplicator
  /\ db = <<>>
  /\ outbox = {}
  /\ ai_scorer_instance = NoInstance

\* The lines under the 'Requirements:' header of the description held.
RequirementLines ==
  IF job.description = <<>> THEN <<>> ELSE Tail(SplitLines(job.description))

\* A description without a requirements section is scored.
ScoreNoRequirements ==
  /\ pc = "idle"
  /\ result' = [returned |-> EligibilityOf(job.description)]
  /\ pc' = "eligibility"
  /\ UNCHANGED <<WEIGHTS, ai_scorer, job, other_objects>>

\* The requirements section gets one more line, under its header, and the
\* description is scored.
AddRequirement(line) ==
  /\ Len(RequirementLines) < MaxRequirementLines
  /\ LET description ==
           (IF job.description = <<>> THEN HeaderLine ELSE job.description)
             \o <<"\n">> \o line
     IN  /\ job' = [job EXCEPT !.description = description]
         /\ result' = [returned |-> EligibilityOf(description)]
  /\ pc' = "eligibility"
  /\ UNCHANGED <<WEIGHTS, ai_scorer, other_objects>>

EligibilityNext ==
  \/ ScoreNoRequirements
  \/ \E line \in RequirementLinePool : AddRequirement(line)

EligibilitySpec == EligibilityInit /\ [][EligibilityNext]_vars

\* _score_eligibility has returned for the description held, which has a
\* requirements section.
RequirementsScored == pc = "eligibility" /\ job.description # <<>>

\* The number of requirement lines that are among the lines given.
LinesAmong(lines) ==
  Cardinality({n \in 1..Len(RequirementLines) : RequirementLines[n] \in lines})

\* C25 as stated: each year mention at or above the exclusion threshold, a
\* range being one mention, appends exactly one concern tag, so that k such
\* mentions cost 40 x k before clamping; and a mention overlapping the
\* accepted window sets experience_match.  The code runs the pattern for
\* single numbers over the whole text too, the ranges included, so '6-8
\* years' gives a tag for the range and a tag for '8 years'.
OneConcernPerMention ==
  RequirementsScored =>
    /\ Len(Returned.matches.concerns) = LinesAmong({SixPlusYears, SixToEightYears})
    /\ LinesAmong({ThreeYears, TwoToFiveYears}) > 0 =>
         Returned.matches.experience_match

\* C26: for a description with a requirements section the eligibility
\* sub-score is 50, plus 30 if experience_match, plus 20 if at least 3
\* distinct skills of the profile occur in the requirements or else 10 if
\* at least 1 does, minus 40 for each concern tag, clamped to 0..100; for a
\* description without one it is exactly 50.
EligibilityScoreFormula ==
  pc = "eligibility" =>
    IF job.description = <<>>
      THEN /\ Returned.score = Points(50)
           /\ Returned.matches = [status |-> "no_requirements_found"]
      ELSE LET text == extract_eligibility_sections(Lower(job.description))
               skills == {skill \in ListSet(all_skills) : WordSearch(skill, text)}
               sum == 50
                        + (IF Returned.matches.experience_match THEN 30 ELSE 0)
                        + (IF Cardinality(skills) >= 3 THEN 20
                           ELSE IF Cardinality(skills) >= 1 THEN 10 ELSE 0)
                        - 40 * Len(Returned.matches.concerns)
           IN  Returned.score =
                 Points(IF sum < 0 THEN 0 ELSE IF sum > 100 THEN 100 ELSE sum)

\* A requirements section with a mention in the accepted window, one skill
\* and one concern: 50 + 30 + 10 - 40.
EligibilityScoreFormulaWitness ==
  /\ RequirementsScored
  /\ Returned.matches.experience_match
  /\ Len(Returned.matches.skills_in_requirements) = 1
  /\ Len(Returned.matches.concerns) = 1
  /\ Returned.score = Points(50)

(***************************************************************************)
(* JobScorer._score_role on titles and descriptions built line by line     *)
(***************************************************************************)

SoftwareEngineering == Words(<<"Software", "engineering">>)

DataAndAnalyticsEngineer == Words(<<"data", "and", "analytics", "engineer">>)

\* Titles with no role, with one role, with a role as a substring only
\* ('software engineer' in 'software engineering') and with two roles.
RoleTitles ==
  {Words(<<"Staff", "Engineer">>), MachineLearningEngineer,
   SoftwareEngineering, DataAndAnalyticsEngineer}

\* Lines of a description: roles, one line with two roles, a role of the
\* title, and lines with no role as a whole word.
RoleLinePool ==
  {Words(<<"Software", "Engineer">>), DataAndAnalyticsEngineer,
   MachineLearningEngineer, Words(<<"software", "engineers">>),
   MachineLearningLine}

\* The most lines a description gets.
MaxRoleLines == 3

\* _score_role as score_job calls it for a posting.
RoleOf(job_data) == score_role(Lower(job_data.title), Lower(job_data.description))

\* A posting with a title and an empty description is scored.
ScoreTitle(title) ==
  /\ pc = "idle"
  /\ job' = [job EXCEPT !.title = title]
  /\ result' = [returned |-> RoleOf([job EXCEPT !.title = title])]
  /\ pc' = "role"
  /\ UNCHANGED <<WEIGHTS, ai_scorer, other_objects>>

\* The description gets one more line and the posting is scored.
AddRoleLine(line) ==
  /\ pc = "role"
  /\ Len(SplitLines(job.description)) < MaxRoleLines \/ job.description = <<>>
  /\ LET description ==
           IF job.description = <<>> THEN line
           ELSE job.description \o <<"\n">> \o line
     IN  /\ job' = [job EXCEPT !.description = description]
         /\ result' = [returned |-> RoleOf([job EXCEPT !.description = description])]
  /\ UNCHANGED <<WEIGHTS, ai_scorer, pc, other_objects>>

RoleNext ==
  \/ \E title \in RoleTitles : ScoreTitle(title)
  \/ \E line \in RoleLinePool : AddRoleLine(line)

\* The initial state is the one of EligibilitySpec: no posting held, nothing
\* scored.
RoleSpec == EligibilityInit /\ [][RoleNext]_vars

\* The roles that are substrings of the lowered title.
RolesInTitle ==
  {role \in ListSet(roles) : Substring(role, Lower(job.title))}

\* The roles found as whole words in the lowered description.
RolesInDescription ==
  {role \in ListSet(roles) : WordSearch(role, Lower(job.description))}

\* C28: the role sub-score is 0 when no role of the profile matches the
\* title or the description, 90 when two or more distinct roles match in
\* the description, 80 when exactly one does, and 60 when roles match in
\* the title only; a role of the title never brings more than 60 unless a
\* role matches in the description, and the matches returned are the union
\* of the title's and the description's, each role once.
RoleScoreByWhereItMatches ==
  pc = "role" =>
    /\ Returned.matches = RolesInTitle \cup RolesInDescription
    /\ Returned.score =
         IF RolesInTitle \cup RolesInDescription = {} THEN 0
         ELSE IF Cardinality(RolesInDescription) >= 2 THEN Points(90)
         ELSE IF Cardinality(RolesInDescription) = 1 THEN Points(80)
         ELSE Points(60)
    /\ (RolesInDescription = {} => Returned.score <= Points(60))

\* The title's role is also the only role of the description: 80, and the
\* role is returned once.
RoleScoreByWhereItMatchesWitness ==
  /\ pc = "role"
  /\ job.title = MachineLearningEngineer
  /\ job.description = Join("\n", <<MachineLearningLine, MachineLearningEngineer>>)
  /\ Returned.score = Points(80)
  /\ Cardinality(Returned.matches) = 1

(***************************************************************************)
(* JobScorer._assess_seniority: the triples it returns                     *)
(***************************************************************************)

\* The six returns of _assess_seniority, in the order of its rules.
SeniorityTriples ==
  {[flag |-> "leadership", ok |-> FALSE, penalty |-> Mult(50)],
   [flag |-> "years_8_plus", ok |-> FALSE, penalty |-> Mult(50)],
   [flag |-> "years_6_plus", ok |-> FALSE, penalty |-> Mult(60)],
   [flag |-> "years_5_plus", ok |-> TRUE, penalty |-> Mult(85)],
   [flag |-> "senior_title", ok |-> FALSE, penalty |-> Mult(60)],
   [flag |-> "ok", ok |-> TRUE, penalty |-> Mult(100)]}

\* The flag of the first rule that applies to the posting held.
FirstSeniorityRule ==
  IF AnyMatching(LeadershipKeywords, JobText) THEN "leadership"
  ELSE IF JobMaxYears >= 8 THEN "years_8_plus"
  ELSE IF JobMaxYears >= 6 THEN "years_6_plus"
  ELSE IF JobMaxYears = 5 THEN "years_5_plus"
  ELSE IF WordSearch(<<"senior">>, JobText) THEN "senior_title"
  ELSE "ok"

IdleCaller == [pc |-> "idle", made |-> 0, got |-> 0]

\* The most threads that call get_ai_scorer.
MaxCallers == 3

Callers == 1..MaxCallers

SingletonInit ==
  /\ WEIGHTS = InitialWeights
  /\ ai_scorer = "none"
  /\ pc = "idle"
  /\ job = NoJob
  /\ result = [returned |-> NoResult]
  /\ calls = [t \in Callers |-> IdleCaller]
  /\ applicator = NoApplicator
  /\ db = <<>>
  /\ outbox = {}
  /\ ai_scorer_instance = NoInstance

\* if _ai_scorer_instance is None: the thread reads the global and goes to
\* the constructor or to the return.
CheckInstance(t) ==
  /\ calls[t].pc = "idle"
  /\ calls' = [calls EXCEPT ![t].pc =
                 IF ai_scorer_instance.instance = 0 THEN "construct"
                 ELSE "return"]
  /\ UNCHANGED <<WEIGHTS, ai_scorer, pc, job, result, applicator, db, outbox,
                 ai_scorer_instance>>

\* AIJobScorer(): the constructor runs and the thread holds the new object.
ConstructScorer(t) ==
  /\ calls[t].pc = "construct"
  /\ ai_scorer_instance' =
       [ai_scorer_instance EXCEPT !.constructed = @ + 1]
  /\ calls' = [calls EXCEPT ![t].pc = "assign",
                            ![t].made = ai_scorer_instance.constructed + 1]
  /\ UNCHANGED <<WEIGHTS, ai_scorer, pc, job, result, applicator, db, outbox>>

\* _ai_scorer_instance = <the new object>: the global is stored.
AssignInstance(t) ==
  /\ calls[t].pc = "assign"
  /\ ai_scorer_instance' =
       [ai_scorer_instance EXCEPT !.instance = calls[t].made]
  /\ calls' = [calls EXCEPT ![t].pc = "return", ![t].made = 0]
  /\ UNCHANGED <<WEIGHTS, ai_scorer, pc, job, result, applicator, db, outbox>>

\* return _ai_scorer_instance: the global is read again and returned; the
\* thread may call again.
ReturnInstance(t) ==
  /\ calls[t].pc = "return"
  /\ calls' = [calls EXCEPT ![t].pc = "idle",
                            ![t].got = ai_scorer_instance.instance]
  /\ UNCHANGED <<WEIGHTS, ai_scorer, pc, job, result, applicator, db, outbox,
                 ai_scorer_instance>>

SingletonNext ==
  \E t \in Callers :
    \/ CheckInstance(t)
    \/ ConstructScorer(t)
    \/ AssignInstance(t)
    \/ ReturnInstance(t)

SingletonSpec == SingletonInit /\ [][SingletonNext]_vars

\* The threads whose call has returned.
Received == {t \in Callers : calls[t].got # 0}

\* C30 as stated: AIJobScorer is constructed at most once, exactly once when
\* a caller has returned, and every caller receives the same instance, also
\* when callers run get_ai_scorer at the same time before the instance
\* exists.  The check of the global and its assignment are separate steps
\* under no lock, so two threads that both read None both construct.
ScorerConstructedOnce ==
  /\ ai_scorer_instance.constructed <= 1
  /\ Received # {} => ai_scorer_instance.constructed = 1
  /\ \A t, u \in Received : calls[t].got = calls[u].got

====
